---- MODULE Spec2Model ----
(***************************************************************************)
(* A model of bp2sc: the BP3 grammar AST (ast_nodes.py), the code emitter  *)
(* SCEmitter (sc_emitter.py) and the machines it compiles.                 *)
(*                                                                         *)
(* Emitted SuperCollider text is a sequence of tokens: every delimiter     *)
(* ( ) [ ] { } is a token of its own, every other lexeme (a name, a        *)
(* number, a key) is one token, and a comment is the token "//" followed   *)
(* by its text.  Python's string tests become tests on the first token.    *)
(***************************************************************************)
EXTENDS Integers, Sequences, FiniteSets, TLC

\* Python's None for an optional integer (octave, index, decrement, seed).
None == -1

(***************************************************************************)
(* ast_nodes.py: the node constructors.  Every RHS element is one record   *)
(* shape: t (the class), name, n (octave / index / tempo ratio), flag      *)
(* (Rest.determined, Tie.is_start), args, kids (voices; the elements of a  *)
(* HomoApply are its single voice).                                        *)
(***************************************************************************)
Elem(t, name, n, flag, args, kids) ==
    [t |-> t, name |-> name, n |-> n, flag |-> flag, args |-> args, kids |-> kids]

Note(name, octave) == Elem("Note", name, octave, FALSE, <<>>, <<>>)
Rest == Elem("Rest", "", 0, TRUE, <<>>, <<>>)
UndeterminedRest == Elem("UndeterminedRest", "", 0, FALSE, <<>>, <<>>)
NonTerminal(name) == Elem("NonTerminal", name, 0, FALSE, <<>>, <<>>)
Variable(name) == Elem("Variable", name, 0, FALSE, <<>>, <<>>)
Wildcard(index) == Elem("Wildcard", "", index, FALSE, <<>>, <<>>)
Polymetric(tempo_ratio, voices) == Elem("Polymetric", "", tempo_ratio, FALSE, <<>>, voices)
SpecialFn(name, args) == Elem("SpecialFn", name, 0, FALSE, args, <<>>)
Lambda == Elem("Lambda", "", 0, FALSE, <<>>, <<>>)
HomoApply(kind, elements) == Elem("HomoApply", kind, 0, FALSE, <<>>, <<elements>>)
TimeSig(text) == Elem("TimeSig", text, 0, FALSE, <<>>, <<>>)
Annotation(text) == Elem("Annotation", text, 0, FALSE, <<>>, <<>>)
QuotedSymbol(text) == Elem("QuotedSymbol", text, 0, FALSE, <<>>, <<>>)
Tie(name, octave, is_start) == Elem("Tie", name, octave, is_start, <<>>, <<>>)
ContextMarker(kind) == Elem("ContextMarker", kind, 0, FALSE, <<>>, <<>>)
GotoDirective(grammar, rule) == Elem("GotoDirective", "", grammar, FALSE, <<ToString(rule)>>, <<>>)

Weight(value, decrement) == [value |-> value, decrement |-> decrement]
\* rule.weight is None
NoWeight == Weight(None, None)
Flag(name, op, value) == [name |-> name, op |-> op, value |-> value]

Rule(grammar_num, rule_num, weight, flags, lhs, rhs, comment) ==
    [grammar_num |-> grammar_num, rule_num |-> rule_num, weight |-> weight,
     flags |-> flags, lhs |-> lhs, rhs |-> rhs, comment |-> comment]

GrammarBlock(mode, index, label, preamble, rules) ==
    [mode |-> mode, index |-> index, label |-> label, preamble |-> preamble,
     rules |-> rules]

\* _current_rule is None
NoRule == Rule(None, None, NoWeight, <<>>, <<>>, <<>>, "")

BPFile(headers, grammars) == [headers |-> headers, grammars |-> grammars]

(***************************************************************************)
(* Sequence helpers.                                                       *)
(***************************************************************************)
Range(s) == {s[i] : i \in DOMAIN s}

RECURSIVE Flatten(_)
Flatten(ss) == IF ss = <<>> THEN <<>> ELSE Head(ss) \o Flatten(Tail(ss))

(***************************************************************************)
(* Text as the code sees it: a str is a sequence of one-character strings; *)
(* Str gives the name it spells.                                           *)
(***************************************************************************)
Upper == <<"A", "B", "C", "D", "E", "F", "G", "H", "I", "J", "K", "L", "M",
           "N", "O", "P", "Q", "R", "S", "T", "U", "V", "W", "X", "Y", "Z">>

Lowercase == <<"a", "b", "c", "d", "e", "f", "g", "h", "i", "j", "k", "l", "m",
               "n", "o", "p", "q", "r", "s", "t", "u", "v", "w", "x", "y", "z">>

DigitChars == <<"0", "1", "2", "3", "4", "5", "6", "7", "8", "9">>

RECURSIVE Str(_)
Str(chars) == IF chars = <<>> THEN "" ELSE Head(chars) \o Str(Tail(chars))

\* str.lower() and str.upper() of one character
char_lower(c) ==
    IF \E i \in DOMAIN Upper : Upper[i] = c
    THEN Lowercase[CHOOSE i \in DOMAIN Upper : Upper[i] = c] ELSE c

char_upper(c) ==
    IF \E i \in DOMAIN Lowercase : Lowercase[i] = c
    THEN Upper[CHOOSE i \in DOMAIN Lowercase : Lowercase[i] = c] ELSE c

\* str.lower()
str_lower(chars) == [i \in DOMAIN chars |-> char_lower(chars[i])]

\* the spellings that differ from chars in letter case only
RECURSIVE CaseVariants(_)
CaseVariants(chars) ==
    IF chars = <<>> THEN {<<>>}
    ELSE {<<c>> \o t : c \in {char_lower(Head(chars)), char_upper(Head(chars))},
                       t \in CaseVariants(Tail(chars))}

\* sep.join(items), on token sequences
RECURSIVE Join(_, _)
Join(items, sep) ==
    IF items = <<>> THEN <<>>
    ELSE IF Len(items) = 1 THEN items[1]
    ELSE items[1] \o sep \o Join(Tail(items), sep)

Reverse(s) == [i \in 1..Len(s) |-> s[Len(s) + 1 - i]]

\* the list s without its element at position i (list.pop(i))
Pop(s, i) == [j \in 1..(Len(s) - 1) |-> IF j < i THEN s[j] ELSE s[j + 1]]

SelectIdx(s, Test(_)) == {i \in DOMAIN s : Test(s[i])}

(***************************************************************************)
(* sc_templates: the text templates the emitter calls.                     *)
(***************************************************************************)
Comma == <<",">>

\* _sc_name(name): the SuperCollider symbol of a name that is an identifier
sc_name(name) == name

Sym(name) == "\\" \o sc_name(name)

sc_rest == <<"Rest", "(", ")">>

EventSilent == <<"Event.silent", "(", "0.25", ")">>

sc_comment(text) == <<"//", text>>

sc_pseq(items) == <<"Pseq", "(", "[">> \o Join(items, Comma) \o <<"]", ",", "1", ")">>

sc_ppar(items) == <<"Ppar", "(", "[">> \o Join(items, Comma) \o <<"]", ")">>

sc_prand(items, repeats) ==
    <<"Prand", "(", "[">> \o Join(items, Comma) \o <<"]", ",", repeats, ")">>

sc_pwrand(items, weights, repeats) ==
    <<"Pwrand", "(", "[">> \o Join(items, Comma) \o <<"]", ",", "[">>
        \o Join([i \in DOMAIN weights |-> <<weights[i]>>], Comma)
        \o <<"]", ".normalizeSum", ",", repeats, ")">>

sc_pn(pattern, repeats) == <<"Pn", "(">> \o pattern \o <<",", repeats, ")">>

sc_pseed(seed, body) == <<"Pseed", "(", ToString(seed), ",">> \o body \o <<")">>

\* pairs: a sequence of <<key, value tokens>>
sc_pbind(pairs) ==
    LET given == [i \in DOMAIN pairs |-> <<"\\" \o pairs[i][1], ",">> \o pairs[i][2]]
        inst == IF \E i \in DOMAIN pairs : pairs[i][1] = "instrument" THEN <<>>
                ELSE <<"\\instrument", ",", "\\bp2sc_default", ",">>
    IN  <<"Pbind", "(">> \o inst \o Join(given, Comma) \o <<")">>

sc_pdef(name, pattern) ==
    <<"Pdef", "(", Sym(name), ",">>
        \o (IF pattern = sc_rest THEN <<"Event.silent", "(", "0", ")">> ELSE pattern)
        \o <<")", ";">>

sc_play(name) == <<"Pdef", "(", Sym(name), ")", ".play", ";">>

sc_header(title, source_name) == sc_comment(title \o ": " \o source_name)

sc_synthdef_default ==
    <<"SynthDef", "(", "\\bp2sc_default", ",", "{", "}", ")", ".add", ";">>

sc_tempo(bpm) == <<"TempoClock.default.tempo", "=", bpm, "/60", ";">>

sc_footer == sc_comment("end")

(***************************************************************************)
(* note_converter.py                                                       *)
(***************************************************************************)
FR_BASE ==
    [name \in {"do", "re", "mi", "fa", "sol", "la", "si",
               "dob", "do#", "reb", "re#", "mib", "mi#", "fab", "fa#",
               "solb", "sol#", "lab", "la#", "sib", "si#"} |->
        CASE name = "do" -> 0 [] name = "re" -> 2 [] name = "mi" -> 4
          [] name = "fa" -> 5 [] name = "sol" -> 7 [] name = "la" -> 9
          [] name = "si" -> 11
          [] name = "dob" -> 0 - 1 [] name = "do#" -> 1
          [] name = "reb" -> 1 [] name = "re#" -> 3
          [] name = "mib" -> 3 [] name = "mi#" -> 5
          [] name = "fab" -> 4 [] name = "fa#" -> 6
          [] name = "solb" -> 6 [] name = "sol#" -> 8
          [] name = "lab" -> 8 [] name = "la#" -> 10
          [] name = "sib" -> 10 [] name = "si#" -> 0]

INDIAN_BASE ==
    [name \in {"sa", "re", "ga", "ma", "pa", "dha", "ni"} |->
        CASE name = "sa" -> 0 [] name = "re" -> 2 [] name = "ga" -> 4
          [] name = "ma" -> 5 [] name = "pa" -> 7 [] name = "dha" -> 9
          [] name = "ni" -> 11]

ANGLO_BASE ==
    [name \in {"C", "D", "E", "F", "G", "A", "B",
               "C#", "Db", "D#", "Eb", "E#", "Fb", "F#", "Gb",
               "G#", "Ab", "A#", "Bb", "B#", "Cb"} |->
        CASE name = "C" -> 0 [] name = "D" -> 2 [] name = "E" -> 4
          [] name = "F" -> 5 [] name = "G" -> 7 [] name = "A" -> 9
          [] name = "B" -> 11
          [] name = "C#" -> 1 [] name = "Db" -> 1 [] name = "D#" -> 3
          [] name = "Eb" -> 3 [] name = "E#" -> 5 [] name = "Fb" -> 4
          [] name = "F#" -> 6 [] name = "Gb" -> 6 [] name = "G#" -> 8
          [] name = "Ab" -> 8 [] name = "A#" -> 10 [] name = "Bb" -> 10
          [] name = "B#" -> 0 [] name = "Cb" -> 0 - 1]

\* the note names of the three tables, spelled out
FrenchStems ==
    {<<"d", "o">>, <<"r", "e">>, <<"m", "i">>, <<"f", "a">>, <<"s", "o", "l">>,
     <<"l", "a">>, <<"s", "i">>}

IndianSpelled ==
    {<<"s", "a">>, <<"r", "e">>, <<"g", "a">>, <<"m", "a">>, <<"p", "a">>,
     <<"d", "h", "a">>, <<"n", "i">>}

AngloLetters == {<<"C">>, <<"D">>, <<"E">>, <<"F">>, <<"G">>, <<"A">>, <<"B">>}

WithAccidental(stems) ==
    stems \cup {s \o <<"b">> : s \in stems} \cup {s \o <<"#">> : s \in stems}

\* a few spellings that are no note name in any letter case
NoNames == {<<"u", "t">>, <<"H">>, <<"x", "#">>}

\* every spelling a note name can be given in, whatever the case of its letters
Spellings ==
    UNION {CaseVariants(s) :
            s \in WithAccidental(FrenchStems) \cup IndianSpelled
                  \cup WithAccidental(AngloLetters) \cup NoNames}

\* name.lower(), for the names above; a name spelled otherwise has no upper
\* case letter in the model
LowerOf == {<<Str(s), Str(str_lower(s))>> : s \in Spellings}

lower(name) ==
    IF \E p \in LowerOf : p[1] = name
    THEN (CHOOSE p \in LowerOf : p[1] = name)[2] ELSE name

\* a resolver that looks the name up as it is spelled, and counts octaves from 0
note_to_midi_exact(name, octave) ==
    IF name \in DOMAIN FR_BASE
    THEN [ok |-> TRUE, v |-> octave * 12 + FR_BASE[name]]
    ELSE IF name \in DOMAIN INDIAN_BASE
    THEN [ok |-> TRUE, v |-> octave * 12 + INDIAN_BASE[name]]
    ELSE IF name \in DOMAIN ANGLO_BASE
    THEN [ok |-> TRUE, v |-> octave * 12 + ANGLO_BASE[name]]
    ELSE [ok |-> FALSE, v |-> 0]

\* note_to_midi(name, octave): [ok, v]; ok = FALSE is the ValueError
note_to_midi(name, octave) ==
    IF lower(name) \in DOMAIN FR_BASE
    THEN [ok |-> TRUE, v |-> (octave + 1) * 12 + FR_BASE[lower(name)]]
    ELSE IF lower(name) \in DOMAIN INDIAN_BASE
    THEN [ok |-> TRUE, v |-> (octave + 1) * 12 + INDIAN_BASE[lower(name)]]
    ELSE IF name \in DOMAIN ANGLO_BASE
    THEN [ok |-> TRUE, v |-> (octave + 1) * 12 + ANGLO_BASE[name]]
    ELSE [ok |-> FALSE, v |-> 0]

(***************************************************************************)
(* Numbers in text.                                                        *)
(***************************************************************************)
\* the integers a decimal argument of the model can denote
IntLits == 0..127

\* int(s): [ok, v]; ok = FALSE is the ValueError
ParseInt(s) ==
    IF \E n \in IntLits : ToString(n) = s
    THEN [ok |-> TRUE, v |-> CHOOSE n \in IntLits : ToString(n) = s]
    ELSE [ok |-> FALSE, v |-> 0]

\* SCEmitter._is_midi_number, on one emitted fragment
is_midi_number(e) == Len(e) = 1 /\ ParseInt(e[1]).ok

\* str(round(n / d, 3)): the token that stands for the rounded quotient
Frac(n, d) == ToString(n) \o "/" \o ToString(d)

\* SCEmitter._sanitize_sc_number, on a value's tokens
sanitize_sc_number(val) ==
    IF Len(val) = 1 /\ val[1] \in {"+1", "+2", "+12"}
    THEN <<CASE val[1] = "+1" -> "1" [] val[1] = "+2" -> "2" [] OTHER -> "12">>
    ELSE val

Max(a, b) == IF a >= b THEN a ELSE b
Min(a, b) == IF a <= b THEN a ELSE b

(***************************************************************************)
(* The program's state.                                                    *)
(*   bp, source options : the arguments of emit_scd                        *)
(*   alphabet_files     : the homomorphism sections loaded from the        *)
(*                        alphabet directory, label -> (note -> note)      *)
(*   self               : the SCEmitter instance's mutable fields          *)
(*   pc, blk, grp       : the position of emit() in its loops: the block   *)
(*                        being emitted and how many of its LHS groups are *)
(*                        done                                             *)
(*   parts              : the lines emitted so far, one token sequence each*)
(*   runs               : the calls of emit_scd the process has completed, *)
(*                        each with its arguments and what it returned     *)
(*   prout              : the routine of one compiled decrement Pdef while *)
(*                        the emitted text is played                       *)
(*   frout              : the routine of one compiled flag Pdef while the  *)
(*                        emitted text is played                           *)
(*   lex                : the parser (grammar/parser.py): the lines of the *)
(*                        text, the blocks built, and the frames of the    *)
(*                        rule-body tokenizer                              *)
(*   call               : one call of a pure function: its arguments and   *)
(*                        what it returned                                 *)
(***************************************************************************)
VARIABLES bp, start_symbol, seed, max_dur, alphabet_files,
          self, pc, blk, grp, parts, runs, prout, frout, lex, call

vars == <<bp, start_symbol, seed, max_dur, alphabet_files,
          self, pc, blk, grp, parts, runs, prout, frout, lex, call>>

\* the result of one _emit_* call: its kind (None, tuple, dict, str, raise),
\* its value and the instance after the call
R(k, v, st) == [k |-> k, v |-> v, self |-> st]

\* SCEmitter._warn
Warn(st, category, message) ==
    [st EXCEPT !.warnings = Append(@,
        [category |-> category, message |-> message,
         grammar |-> IF st.current_block = 0 THEN None
                     ELSE bp.grammars[st.current_block].index,
         rule |-> st.current_rule.rule_num])]

\* fn.name.lower()
Lower(name) ==
    CASE name = "Retro" -> "retro" [] name = "Vel" -> "vel" [] OTHER -> name

\* scale_map._SCALE_DATA before the first load
NoData == [tunings |-> <<>>, ragas |-> <<>>]

\* the content of data/scale_map.json: names and their SuperCollider classes
ScaleFile ==
    [tunings |-> <<[name |-> "just intonation", sc |-> "Tuning.just"]>>,
     ragas |-> <<[name |-> "todi_ka_4", sc |-> "Scale.todi"]>>]

\* scale_map._load_data: the module's cache, loaded on first use
load_data(data) == IF data = NoData THEN ScaleFile ELSE data

\* scale_map.parse_root_arg: the pitch class of a root argument
parse_root_arg(arg) ==
    IF ParseInt(arg).ok THEN ParseInt(arg).v % 12
    ELSE CASE arg = "D4" -> 2 [] arg = "re4" -> 2 [] arg = "pa_4" -> 7 [] OTHER -> 0

\* dict lookup in one table of the scale data: the class, "" if absent
ScaleLookup(table, name) ==
    LET hits == SelectSeq(table, LAMBDA e : e.name = name)
    IN  IF hits = <<>> THEN "" ELSE hits[1].sc

\* scale_map.resolve_scale, on the loaded data: key-quality names, tunings,
\* ragas, else the chromatic fallback
resolve_scale(name, root_arg, data) ==
    IF name \in {"Cmaj", "Dmin"}
    THEN <<"scale", IF name = "Cmaj" THEN "Scale.major" ELSE "Scale.minor",
           "root", IF name = "Cmaj" THEN "0" ELSE "2">>
    ELSE IF ScaleLookup(data.tunings, name) # ""
    THEN <<"tuning", ScaleLookup(data.tunings, name),
           "root", ToString(parse_root_arg(root_arg))>>
    ELSE IF ScaleLookup(data.ragas, name) # ""
    THEN <<"scale", ScaleLookup(data.ragas, name),
           "root", ToString(parse_root_arg(root_arg))>>
    ELSE <<"scale", "Scale.chromatic", "root", ToString(parse_root_arg(root_arg)),
           "_unknown", "true">>

\* the amp value of _vel / _volume / _rndvel for velocity vel under range rng
AmpValue(vel, rng) ==
    IF rng # 0
    THEN <<"Pwhite", "(", Frac(Max(0, vel - rng), 127), ",",
           Frac(Min(127, vel + rng), 127), ")">>
    ELSE <<Frac(vel, 127)>>

\* SCEmitter._emit_special_fn
emit_special_fn(fn, st) ==
    LET name == Lower(fn.name)
        args == fn.args
        has == args # <<>>
        a1 == IF has THEN args[1] ELSE ""
        n1 == ParseInt(a1)
        argtext == Join([i \in DOMAIN args |-> <<args[i]>>], Comma)
    IN
    IF name = "transpose" /\ has THEN R("tuple", <<"ctranspose", a1>>, st)
    ELSE IF name \in {"vel", "volume"} /\ has THEN
        IF n1.ok
        THEN R("tuple", <<"amp">> \o AmpValue(n1.v, st.rndvel_range),
               [st EXCEPT !.last_vel = n1.v])
        ELSE R("tuple", <<"amp", a1>>, st)
    ELSE IF name = "mm" /\ has THEN R("str", sc_comment("tempo: " \o a1), st)
    ELSE IF name = "mm_inline" /\ has THEN
        IF n1.ok /\ n1.v # 0
        THEN R("tuple", <<"stretch", Frac(60, n1.v)>>, st)
        ELSE R("str", sc_comment("tempo inline: " \o a1), st)
    ELSE IF name = "ins" /\ has THEN
        R("tuple", <<"instrument", "\\" \o (IF n1.ok THEN "inst_" \o a1 ELSE a1)>>, st)
    ELSE IF name \in {"pitchrange", "step", "keyxpand", "switchon", "switchoff"} /\ has THEN
        R("str", sc_comment(name \o ": " \o a1), Warn(st, "approximation", name))
    ELSE IF name \in {"pitchbend", "mod"} /\ has THEN R("tuple", <<"detune", a1>>, st)
    ELSE IF name \in {"pitchcont", "striated", "destru", "pitchstep"} THEN
        R("str", sc_comment(name), Warn(st, "approximation", name))
    ELSE IF name \in {"goto", "failed"} /\ has THEN
        R("str", sc_comment("TODO: " \o name), Warn(st, "unsupported_fn", name))
    ELSE IF name = "repeat" /\ has THEN
        R("None", <<>>, [st EXCEPT !.pending_repeat = IF n1.ok THEN n1.v ELSE None])
    ELSE IF name = "script" /\ has THEN
        IF a1 = "MIDI program 43" THEN R("tuple", <<"program", "43">>, st)
        ELSE R("str", sc_comment("TODO: script"), Warn(st, "unsupported_fn", name))
    ELSE IF name \in {"staccato", "legato"} /\ has THEN
        R("tuple", <<"legato", IF n1.ok THEN Frac(n1.v, 100) ELSE a1>>, st)
    ELSE IF name = "chan" /\ has THEN R("tuple", <<"chan", a1>>, st)
    ELSE IF name = "rndvel" /\ has THEN
        LET rng == IF n1.ok THEN n1.v ELSE 0
        IN  R("tuple", <<"amp">> \o AmpValue(st.last_vel, rng),
              [st EXCEPT !.rndvel_range = rng])
    ELSE IF name = "rndtime" THEN
        IF has /\ n1.ok /\ n1.v > 0
        THEN R("tuple", <<"dur", "Pwhite", "(", "0.25-" \o a1 \o "%", ",",
                          "0.25+" \o a1 \o "%", ")">>, st)
        ELSE R("tuple", <<"dur", "0.25">>, st)
    ELSE IF name = "rest" THEN R("str", sc_rest, st)
    ELSE IF name = "velcont" THEN R("str", sc_comment("velcont"), st)
    ELSE IF name = "press" /\ has THEN
        R("tuple", <<"aftertouch", IF n1.ok THEN Frac(n1.v, 127) ELSE a1>>, st)
    ELSE IF name = "part" THEN
        IF has THEN R("str", sc_comment("part: " \o a1), st) ELSE R("None", <<>>, st)
    ELSE IF name = "tempo" /\ has THEN
        R("tuple", <<"stretch", IF n1.ok /\ n1.v # 0 THEN Frac(1, n1.v) ELSE a1>>, st)
    ELSE IF name = "scale" THEN
        LET data == load_data(st.scale_data)
            loaded == IF has THEN [st EXCEPT !.scale_data = data] ELSE st
            result == IF Len(args) >= 2 THEN resolve_scale(args[1], args[2], data)
                      ELSE IF Len(args) = 1 THEN resolve_scale(args[1], "0", data)
                      ELSE <<"scale", "Scale.chromatic", "root", "0">>
        IN  IF Len(result) = 6
            THEN R("dict", SubSeq(result, 1, 4), Warn(loaded, "approximation", name))
            ELSE R("dict", result, loaded)
    ELSE IF name = "value" /\ Len(args) >= 2 THEN R("tuple", <<args[1], args[2]>>, st)
    ELSE IF name \in {"retro", "rotate"} THEN R("None", <<>>, st)
    ELSE IF name \in {"sustainstart", "sustainstart_", "sustainstopstart",
                      "sustainstopstart_"} THEN R("tuple", <<"sustain", "1">>, st)
    ELSE IF name \in {"sustainstop", "sustainstop_"} THEN R("tuple", <<"sustain", "0">>, st)
    ELSE IF name \in {"sostenutostart", "sostenutostart_"} THEN
        R("tuple", <<"sostenuto", "1">>, st)
    ELSE IF name \in {"sostenutostop", "sostenutostop_"} THEN
        R("tuple", <<"sostenuto", "0">>, st)
    ELSE IF name \in {"softstart", "softstart_"} THEN R("tuple", <<"softPedal", "1">>, st)
    ELSE IF name \in {"softstop", "softstop_"} THEN R("tuple", <<"softPedal", "0">>, st)
    ELSE IF name = "legato_" THEN R("tuple", <<"legato", "1.5">>, st)
    ELSE IF name = "nolegato_" THEN R("tuple", <<"legato", "0.8">>, st)
    ELSE R("str", sc_comment("_" \o fn.name) \o <<"(">> \o argtext \o <<")">>,
           Warn(st, "unsupported_fn", fn.name))

(***************************************************************************)
(* The indices __init__ derives from the AST.                              *)
(***************************************************************************)
\* SCEmitter._symbol_name; "" is None
symbol_name(elem) ==
    IF elem.t \in {"NonTerminal", "Variable"} THEN elem.name ELSE ""

\* SCEmitter._lhs_name
lhs_name(rule) ==
    LET named == {i \in DOMAIN rule.lhs : symbol_name(rule.lhs[i]) # ""}
    IN  IF named # {}
        THEN symbol_name(rule.lhs[CHOOSE i \in named : \A j \in named : i <= j])
        ELSE "gram" \o ToString(rule.grammar_num) \o "_rule" \o ToString(rule.rule_num)

\* every rule of the file with its block, in file order: <<block position, rule>>
RECURSIVE AllRulesFrom(_)
AllRulesFrom(b) ==
    IF b > Len(bp.grammars) THEN <<>>
    ELSE [i \in DOMAIN bp.grammars[b].rules |-> <<b, bp.grammars[b].rules[i]>>]
         \o AllRulesFrom(b + 1)

AllRules == AllRulesFrom(1)

\* SCEmitter._collect_rules: _rules_by_lhs[name], in file order
rules_by_lhs(name) ==
    SelectSeq(AllRules,
              LAMBDA br : \E i \in DOMAIN br[2].lhs : symbol_name(br[2].lhs[i]) = name)

\* the keys of _rules_by_lhs: _defined_symbols
defined_symbols ==
    UNION {{symbol_name(AllRules[k][2].lhs[i]) : i \in DOMAIN AllRules[k][2].lhs} :
              k \in DOMAIN AllRules} \ {""}

RECURSIVE SortedSeq(_)
SortedSeq(S) ==
    IF S = {} THEN <<>>
    ELSE LET m == CHOOSE x \in S : \A y \in S : x <= y
         IN  <<m>> \o SortedSeq(S \ {m})

\* block.index or 0
IndexOr0(block) == IF block.index = None THEN 0 ELSE block.index

\* SCEmitter._detect_multi_block: _symbol_blocks[name]
symbol_blocks(name) ==
    SortedSeq({IndexOr0(bp.grammars[b]) :
        b \in {c \in DOMAIN bp.grammars :
                 \E i \in DOMAIN bp.grammars[c].rules :
                    lhs_name(bp.grammars[c].rules[i]) = name}})

\* SCEmitter._detect_multi_block: name in _multi_block_symbols
multi_block_symbols(name) == Len(symbol_blocks(name)) > 1

\* SCEmitter._pdef_name; b is the block's position in the file, 0 for None
pdef_name(name, b) ==
    IF multi_block_symbols(name) /\ b # 0
    THEN name \o "_g" \o ToString(bp.grammars[b].index)
    ELSE name

\* SCEmitter._resolve_rhs_ref
resolve_rhs_ref(name, st) ==
    IF ~multi_block_symbols(name) THEN name
    ELSE LET blocks == symbol_blocks(name)
             cur_idx == IF st.current_block = 0 THEN None
                        ELSE IndexOr0(bp.grammars[st.current_block])
         IN  IF st.current_block # 0 /\ cur_idx \in Range(blocks)
             THEN name \o "_g" \o ToString(cur_idx)
             ELSE name \o "_g" \o ToString(blocks[1])

\* SCEmitter._walk_rhs_elements
RECURSIVE walk_rhs_elements(_)
walk_rhs_elements(elements) ==
    IF elements = <<>> THEN <<>>
    ELSE LET elem == Head(elements)
             below == IF elem.t = "Polymetric"
                         \/ (elem.t = "HomoApply" /\ elem.name # "ref")
                      THEN Flatten([v \in DOMAIN elem.kids |->
                                       walk_rhs_elements(elem.kids[v])])
                      ELSE <<>>
         IN  <<elem>> \o below \o walk_rhs_elements(Tail(elements))

\* SCEmitter._detect_homo_labels
homo_labels ==
    {AllRules[k][2].rhs[i].kids[1][j].name :
        <<k, i, j>> \in {t \in (DOMAIN AllRules) \X (1..8) \X (1..8) :
            /\ t[2] \in DOMAIN AllRules[t[1]][2].rhs
            /\ AllRules[t[1]][2].rhs[t[2]].t = "HomoApply"
            /\ AllRules[t[1]][2].rhs[t[2]].name = "ref"
            /\ t[3] \in DOMAIN AllRules[t[1]][2].rhs[t[2]].kids[1]
            /\ AllRules[t[1]][2].rhs[t[2]].kids[1][t[3]].t = "NonTerminal"}}

\* lookups in the _terminal_midi dict, a sequence of [name, midi] in insertion order
TerminalNames(tm) == {tm[i].name : i \in DOMAIN tm}
TerminalMidi(tm, name) == (CHOOSE i \in DOMAIN tm : tm[i].name = name)

\* _RE_ANGLO_NOTE on a terminal name: letter, optional accidental, one digit
AngloNote(name) ==
    {<<a, o>> \in (DOMAIN ANGLO_BASE) \X (0..9) : a \o ToString(o) = name}

\* SCEmitter._collect_terminals: the loop over all walked elements.  No header
\* of the files considered names an -al. file, so _alphabet_terminal_map
\* (lines 160-178) is empty and its branch (line 237) is never taken
RECURSIVE CollectLoop(_, _, _)
CollectLoop(elems, tm, midi) ==
    IF elems = <<>> THEN tm
    ELSE LET elem == Head(elems)
         IN  IF /\ elem.t = "NonTerminal"
                /\ elem.name \notin defined_symbols
                /\ elem.name \notin TerminalNames(tm)
                /\ elem.name \notin homo_labels
             THEN IF AngloNote(elem.name) # {}
                  THEN LET ao == CHOOSE x \in AngloNote(elem.name) : TRUE
                       IN  CollectLoop(Tail(elems),
                              Append(tm, [name |-> elem.name,
                                          midi |-> note_to_midi(ao[1], ao[2]).v]),
                              midi)
                  ELSE CollectLoop(Tail(elems),
                          Append(tm, [name |-> elem.name, midi |-> midi]), midi + 1)
             ELSE CollectLoop(Tail(elems), tm, midi)

collect_terminals ==
    CollectLoop(Flatten([k \in DOMAIN AllRules |-> walk_rhs_elements(AllRules[k][2].rhs)]),
                <<>>, 60)

(***************************************************************************)
(* Emission of one element.                                                *)
(***************************************************************************)
\* e.startswith(prefix), for the prefixes the emitter tests
StartsWith(e, prefix) ==
    /\ e # <<>>
    /\ CASE prefix = "Pbind" -> Head(e) \in {"Pbind", "Pbindf"}
         [] OTHER -> Head(e) = prefix

\* the pitch N of a marker "TIE_START:N", as a set (empty: not a marker)
TieStartMidi(e) ==
    IF Len(e) # 1 THEN {} ELSE {m \in 0..140 : e[1] = "TIE_START:" \o ToString(m)}

\* the literal one-event Pbind the emitter writes around a lone pitch
PbindOne(midi, extra) ==
    <<"Pbind", "(", "\\instrument", ",", "\\bp2sc_default", ",", "\\midinote", ",">>
        \o <<"Pseq", "(", "[", midi, "]", ",", "1", ")", ",", "\\dur", ",", "0.25">>
        \o extra \o <<")">>

\* SCEmitter._rest_for_pattern_ctx
rest_for_pattern_ctx(elems) ==
    [i \in DOMAIN elems |-> IF elems[i] = sc_rest THEN EventSilent ELSE elems[i]]

\* SCEmitter._ensure_no_bare_midi_in_seq
ensure_no_bare_midi_in_seq(elems) ==
    LET has_midi == \E i \in DOMAIN elems :
                        ~StartsWith(elems[i], "Rest") /\ is_midi_number(elems[i])
        has_non_midi == \E i \in DOMAIN elems :
                        ~is_midi_number(elems[i]) /\ ~StartsWith(elems[i], "Rest")
    IN  IF has_midi /\ has_non_midi
        THEN [i \in DOMAIN elems |->
                 IF is_midi_number(elems[i]) THEN PbindOne(elems[i][1], <<>>)
                 ELSE elems[i]]
        ELSE elems

\* a faulty assignment: a key that is set keeps its first value
DictSet_first(mods, key, val) ==
    IF \E i \in DOMAIN mods : mods[i][1] = key THEN mods
    ELSE Append(mods, <<key, val>>)

\* mods[key] = val on an insertion-ordered dict, a sequence of <<key, value>>
DictSet(mods, key, val) ==
    IF \E i \in DOMAIN mods : mods[i][1] = key
    THEN [i \in DOMAIN mods |-> IF mods[i][1] = key THEN <<key, val>> ELSE mods[i]]
    ELSE Append(mods, <<key, val>>)

\* SCEmitter._wrap_element_group
wrap_element_group(elems0, mods) ==
    LET elems == [i \in DOMAIN elems0 |->
                    IF TieStartMidi(elems0[i]) # {}
                    THEN PbindOne(ToString(CHOOSE m \in TieStartMidi(elems0[i]) : TRUE),
                                  <<",", "\\legato", ",", "2.0">>)
                    ELSE IF elems0[i] = <<"TIE_END">> THEN EventSilent
                    ELSE elems0[i]]
        Plain(e) == /\ ~StartsWith(e, "Rest") /\ ~StartsWith(e, "Event.silent")
                    /\ ~StartsWith(e, "Pbind")
        non_rest == SelectSeq(elems, Plain)
        all_midi == non_rest # <<>> /\ \A i \in DOMAIN non_rest : is_midi_number(non_rest[i])
        has_midi == \E i \in DOMAIN non_rest : is_midi_number(non_rest[i])
    IN  IF all_midi
        THEN LET pairs == <<<<"midinote", sc_pseq(elems)>>>> \o mods
             IN  sc_pbind(IF \E i \in DOMAIN pairs : pairs[i][1] = "dur" THEN pairs
                          ELSE Append(pairs, <<"dur", <<"0.25">>>>))
        ELSE LET wrapped == IF has_midi
                            THEN [i \in DOMAIN elems |->
                                    IF is_midi_number(elems[i])
                                    THEN PbindOne(elems[i][1], <<>>) ELSE elems[i]]
                            ELSE elems
                 ctx == rest_for_pattern_ctx(wrapped)
                 inner == IF Len(ctx) = 1 THEN ctx[1] ELSE sc_pseq(ctx)
             IN  IF mods # <<>>
                 THEN <<"Pbindf", "(">> \o inner \o <<",">>
                      \o Join([i \in DOMAIN mods |->
                                 <<"\\" \o mods[i][1], ",">> \o mods[i][2]], Comma)
                      \o <<")">>
                 ELSE inner

\* SCEmitter._get_homo_mapping: the rules of the first loaded section of that
\* name, <<>> for None
get_homo_mapping(label) ==
    LET found == {i \in DOMAIN alphabet_files : alphabet_files[i].name = label}
    IN  IF found = {} THEN <<>>
        ELSE alphabet_files[CHOOSE i \in found : \A j \in found : i <= j].rules

\* mapping.get(note_name), "" for None
MappingGet(mapping, note_name) ==
    LET hits == {i \in DOMAIN mapping : mapping[i].source = note_name}
    IN  IF hits = {} THEN ""
        ELSE mapping[CHOOSE i \in hits : \A j \in hits : j <= i].target

french_names ==
    <<"do", "dop", "re", "rep", "mi", "fa", "fap", "sol", "solp", "la", "lap", "si">>

alt_names ==
    [base \in {"dop", "rep", "fap", "solp", "lap"} |->
        CASE base = "dop" -> "reb" [] base = "rep" -> "mib" [] base = "fap" -> "solb"
          [] base = "solp" -> "lab" [] OTHER -> "sib"]

alt_to_idx == <<<<"reb", 1>>, <<"mib", 3>>, <<"solb", 6>>, <<"lab", 8>>, <<"sib", 10>>>>

\* SCEmitter._apply_homo_to_midi
apply_homo_to_midi(midi, mapping) ==
    LET octave == (midi \div 12) - 1
        base == french_names[(midi % 12) + 1]
        direct == MappingGet(mapping, base \o ToString(octave))
        target == IF direct # "" THEN direct
                  ELSE IF base \in DOMAIN alt_names
                  THEN MappingGet(mapping, alt_names[base] \o ToString(octave))
                  ELSE ""
        fr == {<<i, o>> \in (1..12) \X (0..9) : french_names[i] \o ToString(o) = target}
        alt == {<<i, o>> \in (1..5) \X (0..9) : alt_to_idx[i][1] \o ToString(o) = target}
    IN  IF target = "" THEN midi
        ELSE IF fr # {}
        THEN LET io == CHOOSE x \in fr : TRUE IN (io[2] + 1) * 12 + (io[1] - 1)
        ELSE IF alt # {}
        THEN LET io == CHOOSE x \in alt : TRUE IN (io[2] + 1) * 12 + alt_to_idx[io[1]][2]
        ELSE midi

\* SCEmitter._resolve_symbol_to_midi: the pitches, <<>> for None
RECURSIVE resolve_symbol_to_midi(_, _, _)
resolve_symbol_to_midi(name, depth, st) ==
    IF depth > 10 THEN <<>>
    ELSE IF name \in TerminalNames(st.terminal_midi)
    THEN <<st.terminal_midi[TerminalMidi(st.terminal_midi, name)].midi>>
    ELSE IF rules_by_lhs(name) = <<>> THEN <<>>
    ELSE LET rule == rules_by_lhs(name)[1][2]
         IN  Flatten([i \in DOMAIN rule.rhs |->
                 IF rule.rhs[i].t = "Note"
                 THEN <<note_to_midi(rule.rhs[i].name, rule.rhs[i].n).v>>
                 ELSE IF rule.rhs[i].t \in {"NonTerminal", "Variable"}
                 THEN resolve_symbol_to_midi(rule.rhs[i].name, depth + 1, st)
                 ELSE <<>>])

\* the value v under the name the body F gives it (a local assigned once)
Let(v, F(_)) == F(v)

\* a faulty tie branch: a matched tie end leaves the pitch pending
emit_tie_held(elem, st) ==
    LET midi == note_to_midi(elem.name, elem.n)
    IN  IF ~midi.ok THEN R("raise", <<"ValueError">>, st)
        ELSE IF elem.flag
        THEN R("str", <<"TIE_START:" \o ToString(midi.v)>>,
               [st EXCEPT !.pending_tie_midi = midi.v])
        ELSE IF st.pending_tie_midi = midi.v
        THEN R("str", <<"TIE_END">>, st)
        ELSE R("str", <<ToString(midi.v)>>, st)

\* SCEmitter._emit_element, lines 1008-1023: a Tie
emit_tie(elem, st) ==
    LET midi == note_to_midi(elem.name, elem.n)
    IN  IF ~midi.ok THEN R("raise", <<"ValueError">>, st)
        ELSE IF elem.flag
        THEN R("str", <<"TIE_START:" \o ToString(midi.v)>>,
               [st EXCEPT !.pending_tie_midi = midi.v])
        ELSE IF st.pending_tie_midi = midi.v
        THEN R("str", <<"TIE_END">>, [st EXCEPT !.pending_tie_midi = None])
        ELSE R("str", <<ToString(midi.v)>>, st)

RECURSIVE emit_element(_, _), emit_polymetric(_, _), emit_voice_elements(_, _),
          emit_homo(_, _), VoiceLoop(_, _, _), VoicesLoop(_, _, _, _)

\* SCEmitter._emit_element
emit_element(elem, st) ==
    CASE elem.t = "Note" ->
           LET midi == note_to_midi(elem.name, elem.n)
           IN  IF midi.ok THEN R("str", <<ToString(midi.v)>>, st)
               ELSE R("raise", <<"ValueError">>, st)
      [] elem.t = "Rest" -> R("str", sc_rest, st)
      [] elem.t = "UndeterminedRest" ->
           R("str", sc_rest, Warn(st, "unsupported_node", "UndeterminedRest"))
      [] elem.t \in {"NonTerminal", "Variable"} ->
           R("str", <<"Pdef", "(", Sym(resolve_rhs_ref(elem.name, st)), ")">>, st)
      [] elem.t = "Wildcard" -> R("str", sc_rest, Warn(st, "approximation", "Wildcard"))
      [] elem.t = "Polymetric" -> emit_polymetric(elem, st)
      [] elem.t = "SpecialFn" -> emit_special_fn(elem, st)
      [] elem.t = "Lambda" -> R("None", <<>>, st)
      [] elem.t = "HomoApply" -> emit_homo(elem, st)
      [] elem.t = "TimeSig" ->
           R("str", sc_comment("time sig: " \o elem.name),
             Warn(st, "time_sig_ignored", elem.name))
      [] elem.t = "Annotation" -> R("None", <<>>, st)
      [] elem.t = "Tie" -> emit_tie(elem, st)
      [] elem.t = "QuotedSymbol" ->
           Let(Warn(st, "unsupported_node", "QuotedSymbol"), LAMBDA w :
               R("str", <<"Pdef", "(", Sym(elem.name), ")">>,
                 IF elem.name \in TerminalNames(w.terminal_midi) THEN w
                 ELSE [w EXCEPT !.terminal_midi =
                          Append(@, [name |-> elem.name, midi |-> 60 + Len(@)])]))
      [] elem.t = "ContextMarker" ->
           R("None", <<>>, Warn(st, "unsupported_node", "ContextMarker"))
      [] elem.t = "GotoDirective" -> R("None", <<>>, Warn(st, "unsupported_fn", "_goto"))
      [] OTHER -> R("None", <<>>, Warn(st, "unsupported_node", "Unknown element type"))

\* SCEmitter._emit_voice_elements, lines 1153-1162: the emission loop.  A dict
\* result has no startswith: the AttributeError
VoiceLoop(voice, elems, st) ==
    IF voice = <<>> THEN R("list", elems, st)
    ELSE Let(emit_element(Head(voice), st), LAMBDA result :
           CASE result.k = "raise" -> result
             [] result.k = "dict" -> R("raise", <<"AttributeError">>, result.self)
             [] result.k = "str" /\ ~StartsWith(result.v, "//") ->
                  VoiceLoop(Tail(voice), Append(elems, result.v), result.self)
             [] OTHER -> VoiceLoop(Tail(voice), elems, result.self))

\* SCEmitter._emit_voice_elements, lines 1131-1150: the _retro / _rotate prefix,
\* as [start_idx, do_retro, rotate_amount]
RECURSIVE VoicePrefix(_, _, _)
VoicePrefix(voice, i, acc) ==
    IF i > Len(voice) THEN acc
    ELSE IF voice[i].t # "SpecialFn" THEN acc
    ELSE IF Lower(voice[i].name) = "retro"
    THEN VoicePrefix(voice, i + 1, [acc EXCEPT !.do_retro = TRUE, !.start_idx = i])
    ELSE IF Lower(voice[i].name) = "rotate" /\ voice[i].args # <<>>
    THEN VoicePrefix(voice, i + 1,
            [acc EXCEPT !.start_idx = i,
                        !.rotate_amount = IF ParseInt(voice[i].args[1]).ok
                                          THEN ParseInt(voice[i].args[1]).v ELSE @])
    ELSE acc

\* SCEmitter._emit_voice_elements, lines 1165-1171: the transformations
voice_transform(elems, do_retro, rotate_amount) ==
    LET rev == IF do_retro THEN Reverse(elems) ELSE elems
        n == IF elems = <<>> THEN 0 ELSE rotate_amount % Len(elems)
    IN  SubSeq(rev, n + 1, Len(rev)) \o SubSeq(rev, 1, n)

\* SCEmitter._emit_voice_elements
emit_voice_elements(voice, st) ==
    Let(VoicePrefix(voice, 1, [start_idx |-> 0, do_retro |-> FALSE, rotate_amount |-> 0]),
        LAMBDA pre :
          Let(VoiceLoop(SubSeq(voice, pre.start_idx + 1, Len(voice)), <<>>, st),
              LAMBDA res :
                IF res.k = "raise" THEN res
                ELSE R("list", voice_transform(res.v, pre.do_retro, pre.rotate_amount),
                       res.self)))

\* all_midi as _emit_polymetric computes it for one voice
VoiceAllMidi(elems) ==
    LET non_rest == SelectSeq(elems, LAMBDA e : ~StartsWith(e, "Rest"))
    IN  non_rest # <<>> /\ \A i \in DOMAIN non_rest : is_midi_number(non_rest[i])

\* SCEmitter._emit_polymetric, lines 1096-1119: the pattern of one of several
\* voices
voice_pattern(poly, elems) ==
    LET all_midi == VoiceAllMidi(elems)
        ratio == IF poly.n = None THEN 1 ELSE IF poly.n = 0 THEN 1 ELSE poly.n
        dur_expr == IF Len(elems) > 1
                    THEN ToString(ratio) \o " / " \o ToString(Len(elems))
                    ELSE ToString(ratio)
    IN  IF Len(elems) = 1 /\ ~all_midi THEN rest_for_pattern_ctx(elems)[1]
        ELSE IF all_midi
        THEN sc_pbind(<<<<"midinote", sc_pseq(elems)>>, <<"dur", <<dur_expr>>>>>>)
        ELSE sc_pseq(ensure_no_bare_midi_in_seq(rest_for_pattern_ctx(elems)))

\* SCEmitter._emit_polymetric, lines 1092-1119: the loop over several voices
VoicesLoop(poly, voices, voice_patterns, st) ==
    IF voices = <<>> THEN R("list", voice_patterns, st)
    ELSE Let(emit_voice_elements(Head(voices), st), LAMBDA res :
           IF res.k = "raise" THEN res
           ELSE VoicesLoop(poly, Tail(voices),
                           IF res.v = <<>> THEN voice_patterns
                           ELSE Append(voice_patterns, voice_pattern(poly, res.v)),
                           res.self))

\* SCEmitter._emit_polymetric, lines 1069-1089: the pattern of a single voice
single_voice(poly, elems) ==
    LET all_midi == VoiceAllMidi(elems)
        voice_elems == IF all_midi THEN elems
                       ELSE ensure_no_bare_midi_in_seq(rest_for_pattern_ctx(elems))
        seq == sc_pseq(voice_elems)
        stretch == <<",", "\\stretch", ",",
                     ToString(poly.n) \o "/" \o ToString(Len(voice_elems)), ")">>
    IN  IF elems = <<>> THEN EventSilent
        ELSE IF poly.n # None
        THEN IF all_midi
             THEN <<"Pbindf", "(">>
                  \o sc_pbind(<<<<"midinote", seq>>, <<"dur", <<"0.25">>>>>>) \o stretch
             ELSE <<"Pbindf", "(">> \o seq \o stretch
        ELSE seq

\* SCEmitter._emit_polymetric
emit_polymetric(poly, st) ==
    IF poly.kids = <<>> THEN R("str", EventSilent, st)
    ELSE IF Len(poly.kids) = 1
    THEN Let(emit_voice_elements(poly.kids[1], st), LAMBDA res :
           IF res.k = "raise" THEN res
           ELSE R("str", single_voice(poly, res.v), res.self))
    ELSE Let(VoicesLoop(poly, poly.kids, <<>>, st), LAMBDA res :
           IF res.k = "raise" THEN res
           ELSE IF Len(res.v) = 1 THEN R("str", res.v[1], res.self)
           ELSE R("str", sc_ppar(res.v), res.self))

\* SCEmitter._emit_homo, lines 1646-1664: the pitches of the group, <<>> when
\* it cannot be transformed
RECURSIVE HomoMidi(_, _, _)
HomoMidi(elements, midi_notes, st) ==
    IF elements = <<>> THEN midi_notes
    ELSE IF Head(elements).t = "Note"
    THEN HomoMidi(Tail(elements),
                  Append(midi_notes,
                         note_to_midi(Head(elements).name, Head(elements).n).v), st)
    ELSE IF Head(elements).t \in {"NonTerminal", "Variable"}
    THEN Let(resolve_symbol_to_midi(Head(elements).name, 0, st), LAMBDA resolved :
           IF resolved # <<>>
           THEN HomoMidi(Tail(elements), midi_notes \o resolved, st)
           ELSE <<>>)
    ELSE IF Head(elements).t = "Rest" THEN HomoMidi(Tail(elements), midi_notes, st)
    ELSE <<>>

\* SCEmitter._emit_homo, lines 1622-1634: a REF sets the label
homo_ref(names, st) ==
    IF names = <<>> THEN R("None", <<>>, st)
    ELSE IF get_homo_mapping(names[1]) # <<>>
    THEN R("None", <<>>, [st EXCEPT !.current_homo_label = names[1]])
    ELSE R("None", <<>>, Warn([st EXCEPT !.current_homo_label = names[1]],
                              "homo_not_expanded", names[1]))

\* SCEmitter._emit_homo, lines 1677-1690: the group emitted untransformed
homo_fallback(res) ==
    Let(rest_for_pattern_ctx(res.v), LAMBDA inner :
      Let([res.self EXCEPT !.current_homo_label = ""], LAMBDA cleared :
        IF inner = <<>> THEN R("str", EventSilent, cleared)
        ELSE IF Len(inner) = 1 THEN R("str", inner[1], cleared)
        ELSE R("str", sc_pseq(inner), cleared)))

\* SCEmitter._emit_homo
emit_homo(homo, st) ==
    IF homo.name = "ref"
    THEN homo_ref([i \in DOMAIN homo.kids[1] |->
                      IF symbol_name(homo.kids[1][i]) # ""
                      THEN symbol_name(homo.kids[1][i]) ELSE "?"], st)
    ELSE Let(IF st.current_homo_label # "" THEN get_homo_mapping(st.current_homo_label)
             ELSE <<>>, LAMBDA mapping :
           Let(IF mapping # <<>> THEN HomoMidi(homo.kids[1], <<>>, st) ELSE <<>>,
               LAMBDA midi_notes :
                 IF midi_notes # <<>>
                 THEN R("str",
                        sc_pbind(<<<<"midinote",
                                     sc_pseq([i \in DOMAIN midi_notes |->
                                        <<ToString(apply_homo_to_midi(midi_notes[i],
                                                                      mapping))>>])>>,
                                   <<"dur", <<"0.25">>>>>>),
                        [st EXCEPT !.current_homo_label = ""])
                 ELSE Let(emit_voice_elements(homo.kids[1], st), LAMBDA res :
                        IF res.k = "raise" THEN res ELSE homo_fallback(res))))

(***************************************************************************)
(* Emission of one rule body.                                              *)
(***************************************************************************)
\* a faulty scan for one context name: forward, so that the first element of
\* that name is the one removed
strip_one_first(filtered_rhs, ctx_name, st) ==
    LET hits == {i \in DOMAIN filtered_rhs : symbol_name(filtered_rhs[i]) = ctx_name}
    IN  IF hits = {} THEN R("list", filtered_rhs, st)
        ELSE R("list", Pop(filtered_rhs, CHOOSE i \in hits : \A j \in hits : i <= j),
               Warn(st, "context_stripped", ctx_name))

\* SCEmitter._strip_passthrough_rhs, lines 766-773: the backward scan for one
\* context name
strip_one(filtered_rhs, ctx_name, st) ==
    LET hits == {i \in DOMAIN filtered_rhs : symbol_name(filtered_rhs[i]) = ctx_name}
    IN  IF hits = {} THEN R("list", filtered_rhs, st)
        ELSE R("list", Pop(filtered_rhs, CHOOSE i \in hits : \A j \in hits : j <= i),
               Warn(st, "context_stripped", ctx_name))

RECURSIVE StripLoop(_, _, _)
StripLoop(names, filtered_rhs, st) ==
    IF names = <<>> THEN R("list", filtered_rhs, st)
    ELSE Let(strip_one(filtered_rhs, Head(names), st), LAMBDA res :
           StripLoop(Tail(names), res.v, res.self))

\* SCEmitter._strip_passthrough_rhs
strip_passthrough_rhs(rule, st) ==
    IF Len(rule.lhs) <= 1 THEN R("list", rule.rhs, st)
    ELSE StripLoop(Reverse(SelectSeq([i \in DOMAIN Tail(rule.lhs) |->
                                         symbol_name(Tail(rule.lhs)[i])],
                                     LAMBDA n : n # "")),
                   rule.rhs, st)

\* SCEmitter._emit_rhs, lines 822-826: a real element joins the items, wrapped
\* by a pending _repeat
rhs_item(result, current_mods) ==
    IF result.self.pending_repeat # None
    THEN [code |-> sc_pn(result.v, ToString(result.self.pending_repeat)),
          mods |-> current_mods]
    ELSE [code |-> result.v, mods |-> current_mods]

\* SCEmitter._emit_rhs, lines 806-826: phase 1.  items is a sequence of
\* [code, mods]
RECURSIVE RhsLoop(_, _, _, _)
RhsLoop(elements, current_mods, items, st) ==
    IF elements = <<>> THEN R("list", items, st)
    ELSE Let(emit_element(Head(elements), st), LAMBDA result :
           CASE result.k = "raise" -> result
             [] result.k = "None" ->
                  RhsLoop(Tail(elements), current_mods, items, result.self)
             [] result.k = "dict" ->
                  RhsLoop(Tail(elements),
                          DictSet(DictSet(current_mods, result.v[1],
                                          sanitize_sc_number(<<result.v[2]>>)),
                                  result.v[3], sanitize_sc_number(<<result.v[4]>>)),
                          items, result.self)
             [] result.k = "tuple" ->
                  RhsLoop(Tail(elements),
                          DictSet(current_mods, Head(result.v),
                                  sanitize_sc_number(Tail(result.v))),
                          items, result.self)
             [] result.k = "str" /\ StartsWith(result.v, "//") ->
                  RhsLoop(Tail(elements), current_mods, items,
                          [result.self EXCEPT !.pre_comments = Append(@, result.v)])
             [] OTHER ->
                  RhsLoop(Tail(elements), current_mods,
                          Append(items, rhs_item(result, current_mods)),
                          [result.self EXCEPT !.pending_repeat = None]))

\* SCEmitter._emit_rhs, lines 832-854: phase 2, the groups of consecutive items
\* that share their modifiers, each wrapped
RECURSIVE GroupLoop(_, _, _)
GroupLoop(items, group_elems, group_mods) ==
    IF items = <<>>
    THEN IF group_elems = <<>> THEN <<>>
         ELSE <<wrap_element_group(group_elems, group_mods)>>
    ELSE IF group_elems # <<>> /\ Head(items).mods = group_mods
    THEN GroupLoop(Tail(items), Append(group_elems, Head(items).code), group_mods)
    ELSE IF group_elems = <<>>
    THEN GroupLoop(Tail(items), <<Head(items).code>>, Head(items).mods)
    ELSE <<wrap_element_group(group_elems, group_mods)>>
         \o GroupLoop(Tail(items), <<Head(items).code>>, Head(items).mods)

\* SCEmitter._emit_rhs, lines 856-862: phase 3
rhs_assemble(sc_parts) ==
    IF sc_parts = <<>> THEN sc_rest
    ELSE IF Len(sc_parts) = 1 THEN sc_parts[1]
    ELSE sc_pseq(sc_parts)

\* SCEmitter._emit_rhs
emit_rhs(rule, st) ==
    Let(strip_passthrough_rhs(rule, [st EXCEPT !.current_rule = rule]), LAMBDA stripped :
      Let([stripped.self EXCEPT !.elements = stripped.v], LAMBDA entered :
        IF stripped.v = <<>> THEN R("str", sc_rest, entered)
        ELSE IF Len(stripped.v) = 1 /\ stripped.v[1].t = "Lambda"
        THEN R("str", sc_rest, entered)
        ELSE Let(RhsLoop(stripped.v, <<>>, <<>>, entered), LAMBDA walked :
               IF walked.k = "raise" THEN walked
               ELSE R("str", rhs_assemble(GroupLoop(walked.v, <<>>, <<>>)),
                      walked.self))))

\* [self._emit_rhs(r) for r in rules]
RECURSIVE EmitAll(_, _, _)
EmitAll(rules, patterns, st) ==
    IF rules = <<>> THEN R("list", patterns, st)
    ELSE Let(emit_rhs(Head(rules), st), LAMBDA res :
           IF res.k = "raise" THEN res
           ELSE EmitAll(Tail(rules), Append(patterns, res.v), res.self))

(***************************************************************************)
(* Emission of one symbol: the Pdef of its rules.                          *)
(***************************************************************************)
Embed == <<".embedInStream", "(", "ev", ")", ";">>

\* the counter variable of rule i (0-based, as the emitter numbers them)
WVar(i) == "w" \o ToString(i)

\* " + ".join(w0 .. w{n-1})
WSum(n) == Join([j \in 1..n |-> <<WVar(j - 1)>>], <<"+">>)

\* SCEmitter._emit_decrement_choice, lines 535-540: the declaration of counter i
decrement_var(i, r) ==
    LET val == IF r.weight # NoWeight THEN r.weight.value ELSE 1
        dec == IF r.weight # NoWeight /\ r.weight.decrement # None
               THEN r.weight.decrement ELSE 0
    IN  <<"var", WVar(i), "=", ToString(val), ";">>
        \o (IF dec > 0 THEN sc_comment("decrement: " \o ToString(dec)) \o <<"\n">>
            ELSE <<>>)

\* a faulty decrement statement: the counter is lowered without the clamp
decrement_stmt_unclamped(i, r) ==
    IF r.weight # NoWeight /\ r.weight.decrement # None /\ r.weight.decrement > 0
    THEN <<WVar(i), "=", "(", WVar(i), "-", ToString(r.weight.decrement), ")", ";">>
    ELSE <<>>

\* SCEmitter._emit_decrement_choice, lines 566-568: the decrement statement
decrement_stmt(i, r) ==
    IF r.weight # NoWeight /\ r.weight.decrement # None /\ r.weight.decrement > 0
    THEN <<WVar(i), "=", "(", WVar(i), "-", ToString(r.weight.decrement), ")",
           ".max", "(", "0", ")", ";">>
    ELSE <<>>

\* SCEmitter._emit_decrement_choice, lines 553-561: what opens branch i of n
decrement_open(i, n) ==
    IF i = n - 1 THEN <<"{">>
    ELSE IF i = 0 THEN <<"if", "(", "r", "<", "w0", ")", "{">>
    ELSE <<"}", "{", "if", "(", "r", "<", "(">> \o WSum(i + 1) \o <<")", ")", "{">>

\* SCEmitter._emit_decrement_choice, lines 550-568: the branches
RECURSIVE DecrementLoop(_, _, _, _)
DecrementLoop(rules, i, lines, st) ==
    IF i >= Len(rules) THEN R("str", lines, st)
    ELSE Let(emit_rhs(rules[i + 1], [st EXCEPT !.current_rule = rules[i + 1]]),
             LAMBDA res :
               IF res.k = "raise" THEN res
               ELSE DecrementLoop(rules, i + 1,
                                  lines \o decrement_open(i, Len(rules)) \o res.v
                                        \o Embed \o decrement_stmt(i, rules[i + 1]),
                                  res.self))

\* SCEmitter._emit_decrement_choice
emit_decrement_choice(name, rules, st) ==
    Let(DecrementLoop(rules, 0,
                      <<"Pdef", "(", Sym(name), ",", "Prout", "(", "{", "|ev|">>
                      \o Flatten([i \in DOMAIN rules |-> decrement_var(i - 1, rules[i])])
                      \o <<"inf.do", "{">>
                      \o <<"var", "total", "=">> \o WSum(Len(rules)) \o <<";">>
                      \o <<"var", "r", "=", "total.rand", ";">>,
                      st),
        LAMBDA res :
          IF res.k = "raise" THEN res
          ELSE R("str", res.v \o [i \in 1..(Len(rules) - 1) |-> "}"]
                        \o <<"}">> \o <<"}", ")", ")", ";">>, res.self))

\* a faulty choice: weighted as soon as a rule declares a weight, even when
\* every weight is 1
choice_body_declared(rules, patterns) ==
    LET has_weights == \E i \in DOMAIN rules : rules[i].weight # NoWeight
        weights == [i \in DOMAIN rules |->
                       IF rules[i].weight # NoWeight THEN ToString(rules[i].weight.value)
                       ELSE "1"]
    IN  IF has_weights THEN sc_pwrand(patterns, weights, "1")
        ELSE sc_prand(patterns, "1")

\* SCEmitter._emit_weighted_choice, lines 502-517: Prand or Pwrand
choice_body(rules, patterns) ==
    LET has_weights == \E i \in DOMAIN rules : rules[i].weight # NoWeight
        weights == [i \in DOMAIN rules |->
                       IF rules[i].weight # NoWeight THEN ToString(rules[i].weight.value)
                       ELSE "1"]
    IN  IF has_weights /\ \E i \in DOMAIN weights : weights[i] # "1"
        THEN sc_pwrand(patterns, weights, "1")
        ELSE sc_prand(patterns, "1")

\* SCEmitter._emit_weighted_choice, lines 519-523: Pseed when a seed is given
seeded(body) == IF seed # None THEN sc_pseed(seed, body) ELSE body

\* SCEmitter._emit_weighted_choice
emit_weighted_choice(name, rules, st) ==
    IF \E i \in DOMAIN rules : rules[i].weight # NoWeight /\ rules[i].weight.decrement # None
    THEN emit_decrement_choice(name, rules, st)
    ELSE Let(EmitAll(rules, <<>>, st), LAMBDA res :
           IF res.k = "raise" THEN res
           ELSE R("str", sc_pdef(name, seeded(choice_body(rules, res.v))), res.self))

\* SCEmitter._is_flag_condition
is_flag_condition(flag) == flag.op \in {"", ">", "<"}

\* SCEmitter._is_flag_operation
is_flag_operation(flag) == flag.op \in {"=", "+", "-"}

\* SCEmitter._emit_flag_condition
emit_flag_condition(flag) ==
    IF flag.op \in {">", "<"} THEN <<"(", "~" \o flag.name, flag.op, flag.value, ")">>
    ELSE <<"(", "~" \o flag.name, ">", "0", ")">>

\* SCEmitter._emit_flag_operation
emit_flag_operation(flag) ==
    IF flag.op = "=" THEN <<"~" \o flag.name, "=", flag.value, ";">>
    ELSE IF flag.op \in {"+", "-"}
    THEN <<"~" \o flag.name, "=", "~" \o flag.name, flag.op, flag.value, ";">>
    ELSE <<>>

\* SCEmitter._collect_all_flag_names, sorted
flag_names ==
    LET names == UNION {{AllRules[k][2].flags[i].name : i \in DOMAIN AllRules[k][2].flags} :
                          k \in DOMAIN AllRules}
        \* sorted(): the order of the names the model uses
        rank == [n \in names |-> CASE n = "Ideas" -> 1 [] n = "Notes" -> 2
                                   [] n = "Parts" -> 3 [] OTHER -> 4]
        RECURSIVE Sorted(_)
        Sorted(S) == IF S = {} THEN <<>>
                     ELSE LET m == CHOOSE x \in S : \A y \in S : rank[x] <= rank[y]
                          IN  <<m>> \o Sorted(S \ {m})
    IN  Sorted(names)

\* the flag block with the initial values taken from the first rule of the
\* file, whatever its left-hand side
emit_flag_init_block_first ==
    LET first_flags == IF AllRules # <<>> THEN AllRules[1][2].flags ELSE <<>>
        Init0(n) == LET hits == {i \in DOMAIN first_flags :
                                   /\ first_flags[i].name = n
                                   /\ first_flags[i].op = "="
                                   /\ first_flags[i].value # ""}
                    IN  IF hits = {} THEN "0"
                        ELSE first_flags[CHOOSE i \in hits : \A j \in hits : j <= i].value
    IN  IF flag_names = <<>> THEN <<>>
        ELSE sc_comment("--- Flag variables ---") \o <<"\n">>
             \o Flatten([i \in DOMAIN flag_names |->
                           <<"~" \o flag_names[i], "=", Init0(flag_names[i]), ";">>])

\* SCEmitter._emit_flag_init_block: <<>> is the empty string
emit_flag_init_block ==
    LET pairs == rules_by_lhs(start_symbol)
        first_flags == IF pairs # <<>> THEN pairs[1][2].flags ELSE <<>>
        Init0(n) == LET hits == {i \in DOMAIN first_flags :
                                   /\ first_flags[i].name = n
                                   /\ first_flags[i].op = "="
                                   /\ first_flags[i].value # ""}
                    IN  IF hits = {} THEN "0"
                        ELSE first_flags[CHOOSE i \in hits : \A j \in hits : j <= i].value
    IN  IF flag_names = <<>> THEN <<>>
        ELSE sc_comment("--- Flag variables ---") \o <<"\n">>
             \o Flatten([i \in DOMAIN flag_names |->
                           <<"~" \o flag_names[i], "=", Init0(flag_names[i]), ";">>])

\* SCEmitter._emit_flagged_rules, lines 673-696: the guard and the operations
\* that precede the pattern of rule r
flagged_open(r, first) ==
    LET conditions == SelectSeq(r.flags, is_flag_condition)
        operations == SelectSeq(r.flags, is_flag_operation)
        cond_str == Join([i \in DOMAIN conditions |-> emit_flag_condition(conditions[i])],
                         <<"and:", "{">>)
                    \o (IF Len(conditions) > 1 THEN <<"}">> ELSE <<>>)
    IN  (IF conditions = <<>> THEN <<>>
         ELSE IF first THEN <<"if", "(">> \o cond_str \o <<")", "{">>
         ELSE <<"}", "{", "if", "(">> \o cond_str \o <<")", "{">>)
        \o Flatten([i \in DOMAIN operations |-> emit_flag_operation(operations[i])])

\* SCEmitter._emit_flagged_rules, lines 671-700: the guarded rules.  acc is
\* [lines, first]
RECURSIVE FlaggedLoop(_, _, _)
FlaggedLoop(flagged, acc, st) ==
    IF flagged = <<>> THEN R("str", acc, st)
    ELSE Let(emit_rhs(Head(flagged), [st EXCEPT !.current_rule = Head(flagged)]),
             LAMBDA res :
               IF res.k = "raise" THEN res
               ELSE FlaggedLoop(Tail(flagged),
                       [lines |-> acc.lines \o flagged_open(Head(flagged), acc.first)
                                            \o res.v \o Embed,
                        first |-> acc.first
                                  /\ SelectSeq(Head(flagged).flags, is_flag_condition) = <<>>],
                       res.self))

\* SCEmitter._emit_flagged_rules, lines 702-725: the fallback branch
flagged_fallback(unflagged, patterns, first) ==
    IF unflagged # <<>>
    THEN IF first
         THEN Flatten([i \in DOMAIN patterns |-> patterns[i] \o Embed])
         ELSE <<"}", "{">>
              \o (IF Len(unflagged) = 1 THEN patterns[1] \o Embed
                  ELSE <<"[">> \o Join(patterns, Comma) \o <<"]", ".choose">> \o Embed)
              \o <<"}">>
    ELSE IF ~first
    THEN <<"}", "{", "Event.silent", "(", "0.25", ")">> \o Embed \o <<"}">>
    ELSE <<>>

\* SCEmitter._emit_flagged_rules
emit_flagged_rules(name, rules, st) ==
    Let(FlaggedLoop(SelectSeq(rules, LAMBDA r : r.flags # <<>>),
                    [lines |-> <<"Pdef", "(", Sym(name), ",", "Prout", "(", "{", "|ev|",
                                 "inf.do", "{">>,
                     first |-> TRUE], st),
        LAMBDA guarded :
          IF guarded.k = "raise" THEN guarded
          ELSE Let(EmitAll(SelectSeq(rules, LAMBDA r : r.flags = <<>>), <<>>, guarded.self),
                   LAMBDA rest :
                     IF rest.k = "raise" THEN rest
                     ELSE R("str",
                            guarded.v.lines
                            \o flagged_fallback(SelectSeq(rules, LAMBDA r : r.flags = <<>>),
                                                rest.v, guarded.v.first)
                            \o <<"}">> \o <<"}", ")", ")", ";">>,
                            rest.self)))

\* SCEmitter._emit_rules_for_symbol, lines 458-460: the rules not disabled by a
\* weight of 0, or all of them
active_rules(rules) ==
    LET enabled == SelectSeq(rules, LAMBDA r : r.weight = NoWeight \/ r.weight.value > 0)
    IN  IF enabled = <<>> THEN rules ELSE enabled

\* SCEmitter._emit_rules_for_symbol, lines 468-477: the rule's comment
rule_comment(rule) ==
    IF rule.comment # "" THEN sc_comment(rule.comment) \o <<"\n">> ELSE <<>>

\* SCEmitter._emit_rules_for_symbol; b is the block's position in the file
emit_rules_for_symbol(name, rules, b, st) ==
    IF \E i \in DOMAIN active_rules(rules) : active_rules(rules)[i].flags # <<>>
    THEN emit_flagged_rules(name, active_rules(rules), st)
    ELSE IF bp.grammars[b].mode \in {"RND", "LIN"} /\ Len(active_rules(rules)) # 1
    THEN emit_weighted_choice(name, active_rules(rules), st)
    ELSE Let(EmitAll(active_rules(rules), <<>>, st), LAMBDA all :
           IF all.k = "raise" THEN all
           ELSE IF Len(active_rules(rules)) = 1
           THEN R("str", rule_comment(active_rules(rules)[1]) \o sc_pdef(name, all.v[1]),
                  all.self)
           ELSE R("str", sc_pdef(name, sc_pseq(all.v)), all.self))

\* SCEmitter._emit_block, lines 438-444: the names of the block's LHS groups in
\* first-appearance order
lhs_groups(b) ==
    LET rules == bp.grammars[b].rules
        firsts == {i \in DOMAIN rules :
                     \A j \in 1..(i - 1) : lhs_name(rules[j]) # lhs_name(rules[i])}
    IN  [k \in 1..Cardinality(firsts) |->
            lhs_name(rules[CHOOSE i \in firsts :
                              Cardinality({j \in firsts : j < i}) = k - 1])]

\* lhs_groups[name]: the block's rules of one group, in order
group_rules(b, name) ==
    SelectSeq(bp.grammars[b].rules, LAMBDA r : lhs_name(r) = name)

(***************************************************************************)
(* emit_scd: the constructor and emit(), one step per block header and per *)
(* LHS group.                                                              *)
(***************************************************************************)
\* SCEmitter._prescan_warnings
prescan_warnings ==
    LET refs == SelectSeq(bp.headers, LAMBDA h : h.t = "FileRef")
    IN  [i \in DOMAIN refs |->
            [category |-> "missing_resource", message |-> refs[i].name,
             grammar |-> None, rule |-> None]]

\* a faulty constructor: the _repeat latch is shared between instances
SCEmitter_init_shared ==
    [current_block |-> 0, current_rule |-> NoRule, pending_repeat |-> self.pending_repeat,
     terminal_midi |-> collect_terminals, warnings |-> prescan_warnings,
     last_vel |-> 100, rndvel_range |-> 0, pending_tie_midi |-> None,
     current_homo_label |-> "", tempo_bpm |-> None,
     pre_comments |-> <<>>, elements |-> <<>>, scale_data |-> NoData]

\* SCEmitter.__init__: the fields of a new instance
SCEmitter_init ==
    [current_block |-> 0, current_rule |-> NoRule, pending_repeat |-> None,
     terminal_midi |-> collect_terminals, warnings |-> prescan_warnings,
     last_vel |-> 100, rndvel_range |-> 0, pending_tie_midi |-> None,
     current_homo_label |-> "", tempo_bpm |-> None,
     pre_comments |-> <<>>, elements |-> <<>>, scale_data |-> NoData]

\* emit(), lines 370-376: the tempo the preambles set, None if none
preamble_tempo ==
    LET mm == SelectSeq(Flatten([b \in DOMAIN bp.grammars |-> bp.grammars[b].preamble]),
                        LAMBDA item : /\ item.t = "SpecialFn" /\ item.name = "mm"
                                      /\ item.args # <<>> /\ ParseInt(item.args[1]).ok)
    IN  IF mm = <<>> THEN None ELSE ParseInt(mm[Len(mm)].args[1]).v

\* emit(), lines 383-389: the comment of one header
header_comment(h) ==
    IF h.t = "FileRef" THEN <<sc_comment("BP3 reference: -" \o h.prefix \o "." \o h.name)>>
    ELSE IF h.t = "InitDirective" THEN <<sc_comment("BP3 INIT: " \o h.text)>>
    ELSE IF h.t = "Comment" /\ h.text # "" THEN <<sc_comment(h.text)>>
    ELSE <<>>

\* emit(), lines 398-407: the Pdefs of the terminal sound-objects
terminal_pdefs(tm) ==
    IF tm = <<>> THEN <<>>
    ELSE <<sc_comment("--- Terminal sound-objects (customize to change sounds) ---")>>
         \o [i \in DOMAIN tm |->
               <<"Pdef", "(", Sym(tm[i].name), ",">>
               \o PbindOne(ToString(tm[i].midi), <<>>) \o <<")", ";">>]
         \o <<<<>>>>

\* emit_scd, line 1723: the emitter is constructed.  scale_data is the
\* global scale_map._SCALE_DATA, carried with the instance record: it outlives
\* the instance
Construct ==
    /\ pc = "call"
    /\ self' = [SCEmitter_init EXCEPT !.scale_data = self.scale_data]
    /\ parts' = <<>>
    /\ blk' = 0
    /\ grp' = 0
    /\ pc' = "emit"
    /\ UNCHANGED <<bp, start_symbol, seed, max_dur, alphabet_files, runs, prout, frout, lex, call>>

\* emit(), lines 360-407: header, SynthDef, tempo, header comments, flag
\* variables and terminal Pdefs
EmitHead ==
    /\ pc = "emit"
    /\ parts' = <<sc_header("BP3 Grammar", "unknown"), sc_synthdef_default>>
                \o (IF preamble_tempo \notin {None, 0}
                    THEN <<sc_tempo(ToString(preamble_tempo)), <<>>>> ELSE <<>>)
                \o Flatten([i \in DOMAIN bp.headers |-> header_comment(bp.headers[i])])
                \o <<<<>>>>
                \o (IF emit_flag_init_block # <<>> THEN <<emit_flag_init_block>> ELSE <<>>)
                \o terminal_pdefs(self.terminal_midi)
    /\ self' = [self EXCEPT !.tempo_bpm = IF preamble_tempo = None THEN @
                                          ELSE preamble_tempo]
    /\ pc' = "blocks"
    /\ UNCHANGED <<bp, start_symbol, seed, max_dur, alphabet_files, blk, grp, runs, prout, frout, lex, call>>

\* every LHS group of the block being emitted is done (or no block is begun)
BlockDone == IF blk = 0 THEN TRUE ELSE grp = Len(lhs_groups(blk))

\* what emit() appends when _emit_block returns
BlockEnd == IF blk = 0 THEN <<>> ELSE <<<<>>>>

\* emit(), lines 410-414 and _emit_block, line 435: the next block is begun
EmitBlockHeader ==
    /\ pc = "blocks"
    /\ BlockDone
    /\ blk < Len(bp.grammars)
    /\ LET block == bp.grammars[blk + 1]
       IN  parts' = parts \o BlockEnd
                    \o <<sc_comment("--- Subgrammar " \o ToString(block.index)
                                    \o " (" \o block.mode \o ") ---")>>
                    \o (IF block.label # "" THEN <<sc_comment("Label: " \o block.label)>>
                        ELSE <<>>)
                    \o <<<<>>>>
    /\ blk' = blk + 1
    /\ grp' = 0
    /\ self' = [self EXCEPT !.current_block = blk + 1]
    /\ UNCHANGED <<bp, start_symbol, seed, max_dur, alphabet_files, pc, runs, prout, frout, lex, call>>

\* _emit_block, lines 448-450 and the return to emit(): the Pdef joins the
\* parts; an exception leaves emit()
symbol_emitted(res) ==
    /\ self' = res.self
    /\ pc' = IF res.k = "raise" THEN "raised" ELSE "blocks"
    /\ parts' = IF res.k = "raise" THEN parts ELSE parts \o <<res.v, <<>>>>

\* _emit_block, lines 446-450: the Pdef of the block's next LHS group
EmitSymbol ==
    /\ pc = "blocks"
    /\ blk > 0
    /\ grp < Len(lhs_groups(blk))
    /\ symbol_emitted(emit_rules_for_symbol(pdef_name(lhs_groups(blk)[grp + 1], blk),
                                            group_rules(blk, lhs_groups(blk)[grp + 1]),
                                            blk, self))
    /\ grp' = grp + 1
    /\ UNCHANGED <<bp, start_symbol, seed, max_dur, alphabet_files, blk, runs, prout, frout, lex, call>>

\* emit(), lines 417-431: the play command and the footer; emit() returns
EmitPlay ==
    /\ pc = "blocks"
    /\ BlockDone
    /\ blk = Len(bp.grammars)
    /\ parts' = parts \o BlockEnd
                \o (IF rules_by_lhs(start_symbol) # <<>>
                    THEN <<sc_comment("--- Play ---"),
                           IF max_dur # None
                           THEN <<"Pfindur", "(", ToString(max_dur), ",", "Pdef", "(",
                                  Sym(start_symbol), ")", ")", ".play", ";">>
                           ELSE sc_play(start_symbol)>>
                    ELSE <<>>)
                \o <<<<>>, sc_footer>>
    /\ pc' = "done"
    /\ UNCHANGED <<bp, start_symbol, seed, max_dur, alphabet_files, self, blk, grp,
                   runs, prout, frout, lex, call>>

\* "\n".join(parts), as one token sequence
Text == Flatten(parts)

(***************************************************************************)
(* Inputs: ASTs that parse_text produces, and option sets.                 *)
(***************************************************************************)
\* bounds of the input pools
MaxRules == 3
MaxGuards == 3
MaxRhs == 3

fa4 == Note("fa", 4)
sol4 == Note("sol", 4)

\* no instance exists before the first call
NoEmitter ==
    [current_block |-> 0, current_rule |-> NoRule, pending_repeat |-> None,
     terminal_midi |-> <<>>, warnings |-> <<>>,
     last_vel |-> 0, rndvel_range |-> 0, pending_tie_midi |-> None,
     current_homo_label |-> "", tempo_bpm |-> None,
     pre_comments |-> <<>>, elements |-> <<>>, scale_data |-> NoData]

\* a file of one block, as parse_text numbers it
OneBlock(mode, rules) ==
    BPFile(<<>>, <<GrammarBlock(mode, 1, "", <<>>,
                     [i \in DOMAIN rules |-> [rules[i] EXCEPT !.grammar_num = 1,
                                                              !.rule_num = i]])>>)

\* gram#1[i] <weight> flags lhs --> rhs
PlainRule(weight, flags, lhs, rhs) == Rule(1, 1, weight, flags, lhs, rhs, "")

\* right-hand sides that exercise every element class
Bodies ==
    {<<fa4, sol4>>,
     <<NonTerminal("A"), NonTerminal("B")>>,
     <<fa4, NonTerminal("A"), Rest>>,
     <<Polymetric(None, <<<<fa4, sol4>>>>)>>,
     <<Polymetric(2, <<<<fa4, sol4>>>>)>>,
     <<Polymetric(2, <<<<fa4, NonTerminal("A"), Rest>>>>)>>,
     <<Polymetric(None, <<<<fa4>>, <<NonTerminal("A"), sol4>>>>)>>,
     <<Polymetric(None, <<<<SpecialFn("retro", <<>>), fa4, sol4>>,
                          <<SpecialFn("rotate", <<"1">>), fa4, sol4, fa4>>>>)>>,
     <<Polymetric(None, <<<<SpecialFn("scale", <<>>), fa4>>>>)>>,
     <<Polymetric(None, <<<<SpecialFn("foo", <<"1">>), fa4>>>>)>>,
     <<HomoApply("master", <<fa4, sol4>>)>>,
     <<HomoApply("master", <<SpecialFn("scale", <<"Cmaj">>), fa4>>)>>,
     <<HomoApply("ref", <<NonTerminal("mineur")>>), HomoApply("master", <<fa4, sol4>>)>>,
     <<HomoApply("ref", <<NonTerminal("mineur")>>),
       HomoApply("slave", <<NonTerminal("A"), Rest>>)>>,
     <<SpecialFn("foo", <<"1">>), fa4>>,
     <<SpecialFn("scale", <<"Cmaj", "C4">>), fa4>>,
     <<SpecialFn("scale", <<"Zzz">>), NonTerminal("A")>>,
     <<SpecialFn("scale", <<"just intonation", "D4">>), fa4, sol4>>,
     <<SpecialFn("scale", <<"todi_ka_4">>), fa4>>,
     <<SpecialFn("transpose", <<"+2">>), fa4, SpecialFn("vel", <<"80">>), NonTerminal("A")>>,
     <<SpecialFn("rndvel", <<"10">>), fa4, SpecialFn("Vel", <<"64">>), sol4>>,
     <<SpecialFn("repeat", <<"2">>), NonTerminal("A"), fa4>>,
     <<fa4, SpecialFn("repeat", <<"2">>)>>,
     <<SpecialFn("pitchcont", <<>>), SpecialFn("mm_inline", <<"120">>), NonTerminal("A")>>,
     <<TimeSig("4+4/4"), fa4>>,
     <<Tie("C", 4, TRUE), Tie("C", 4, FALSE), Tie("D", 4, FALSE)>>,
     <<Lambda>>,
     <<UndeterminedRest, Wildcard(1), QuotedSymbol("x"), ContextMarker("open"),
       GotoDirective(2, 1), Annotation("note")>>}

FilesBodies ==
    {OneBlock("ORD", <<PlainRule(NoWeight, <<>>, <<NonTerminal("S")>>, rhs),
                       PlainRule(NoWeight, <<>>, <<NonTerminal("A")>>, <<fa4>>)>>) :
        rhs \in Bodies}

\* <w> and <w-d> prefixes, and none
Weights == {NoWeight, Weight(1, None), Weight(3, None), Weight(0, None), Weight(5, 2)}

\* the right-hand side of the i-th alternative of S
Alt(i) == IF i = 1 THEN <<NonTerminal("A")>>
          ELSE IF i = 2 THEN <<NonTerminal("B"), fa4>>
          ELSE <<Note("do", 3 + (i % 3))>>

\* 2 .. MaxRules weighted alternatives of S in each mode
FilesChoice ==
    {OneBlock(mode, [i \in 1..n |-> PlainRule(ws[i], <<>>, <<NonTerminal("S")>>, Alt(i))]) :
        <<mode, n, ws>> \in
            {t \in {"ORD", "RND", "LIN", "SUB1"} \X (2..MaxRules)
                   \X [1..MaxRules -> Weights] :
                /\ t[2] < MaxRules => \A i \in (t[2] + 1)..MaxRules : t[3][i] = NoWeight
                /\ t[2] > 2 => t[1] = "RND"}}

\* the i-th guard of a rule: /Ideas/, /Notes>2/, /Parts<3/, ...
Guard(i) == CASE i % 3 = 1 -> Flag("Ideas", "", "")
              [] i % 3 = 2 -> Flag("Notes", ">", "2")
              [] OTHER -> Flag("Parts", "<", "3")

\* k guarded rules of g guards each (the first also with an operation when
\* op), then u unguarded rules
FlagRules(k, g, u, op) ==
    [i \in 1..(k + u) |->
        PlainRule(NoWeight,
                  IF i > k THEN <<>>
                  ELSE [j \in 1..g |-> Guard(j)]
                       \o (IF op /\ i = 1 THEN <<Flag("Ideas", "-", "1")>> ELSE <<>>),
                  <<NonTerminal("S")>>, Alt(i))]

FilesFlags ==
    {OneBlock("RND", FlagRules(k, g, u, op)) :
        <<k, g, u, op>> \in (1..MaxRules) \X (1..MaxGuards) \X (0..2) \X BOOLEAN}
    \cup {OneBlock("ORD", <<PlainRule(NoWeight, <<Flag("Ideas", "=", "4")>>,
                                      <<NonTerminal("S")>>, Alt(1)),
                            PlainRule(NoWeight, <<>>, <<NonTerminal("S")>>, Alt(2))>>)}

\* sequences over S of length 1 .. n
RECURSIVE SeqsUpTo(_, _)
SeqsUpTo(S, n) ==
    IF n = 0 THEN {}
    ELSE {<<x>> : x \in S}
         \cup {Append(q, x) : <<q, x>> \in SeqsUpTo(S, n - 1) \X S}

\* multi-symbol left-hand sides: the primary symbol and its context
ContextLhs ==
    {<<Variable("o"), Variable("miny")>>,
     <<Variable("o"), Variable("miny"), Variable("miny")>>,
     <<Variable("o"), NonTerminal("A"), Variable("miny")>>,
     <<Variable("o"), fa4, Variable("miny")>>}

FilesContext ==
    {OneBlock("ORD", <<PlainRule(NoWeight, <<>>, lhs, rhs)>>) :
        <<lhs, rhs>> \in ContextLhs
             \X SeqsUpTo({Variable("o1"), Variable("miny"), NonTerminal("A"), fa4}, MaxRhs)}

\* one loaded -al. file with the homomorphism section "mineur"
Mineur == <<[name |-> "mineur",
             rules |-> <<[source |-> "fa4", target |-> "re4"],
                         [source |-> "sol4", target |-> "mib4"]>>]>>

Options ==
    {[seed |-> None, alphabet_files |-> <<>>, max_dur |-> None],
     [seed |-> 7, alphabet_files |-> Mineur, max_dur |-> 30]}

\* no flag routine is played
FlagIdle == [line |-> 0, env |-> <<>>, pre |-> <<>>, ran |-> <<>>, turn |-> FALSE]

\* the parser is not running
LexIdle ==
    [phase |-> "idle", lines |-> <<>>, i |-> 0, headers |-> <<>>, grammars |-> <<>>,
     in_headers |-> TRUE, rule |-> NoRule, side |-> "", rhs_text |-> <<>>,
     text |-> <<>>, stack |-> <<>>, base |-> 0, out |-> <<>>]

\* no pure function is called
CallIdle == [fn |-> "", args |-> <<>>, done |-> FALSE, result |-> <<>>]

\* a process about to call emit_scd(bp, start_symbol = "S", options)
InitCall(files) ==
    /\ bp \in files
    /\ \E o \in Options :
          /\ seed = o.seed
          /\ alphabet_files = o.alphabet_files
          /\ max_dur = o.max_dur
    /\ start_symbol = "S"
    /\ self = NoEmitter
    /\ pc = "call"
    /\ blk = 0
    /\ grp = 0
    /\ parts = <<>>
    /\ runs = <<>>
    /\ prout = [line |-> 0, w |-> <<>>, last |-> 0, prev |-> <<>>, r |-> 0,
                during |-> <<>>]
    /\ frout = FlagIdle
    /\ lex = LexIdle
    /\ call = CallIdle

Init == InitCall(FilesBodies \cup FilesChoice \cup FilesFlags \cup FilesContext)

Next == Construct \/ EmitHead \/ EmitBlockHeader \/ EmitSymbol \/ EmitPlay

Spec == Init /\ [][Next]_vars

(***************************************************************************)
(* Properties of the emitted text.                                         *)
(***************************************************************************)
Openers == {"(", "[", "{"}
Closers == {")", "]", "}"}

\* the number of tokens d among the first n tokens
Count(tokens, d, n) == Cardinality({i \in 1..n : tokens[i] = d})

\* for each delimiter pair, opens minus closes is never negative at a prefix
\* and is zero at the end
Balanced(tokens) ==
    \A pair \in {<<"(", ")">>, <<"[", "]">>, <<"{", "}">>} :
        /\ \A n \in 1..Len(tokens) :
              Count(tokens, pair[1], n) >= Count(tokens, pair[2], n)
        /\ Count(tokens, pair[1], Len(tokens)) = Count(tokens, pair[2], Len(tokens))

\* the position of the innermost delimiter open at position i, 0 if none
RECURSIVE Encl(_, _, _)
Encl(tokens, i, depth) ==
    IF i = 0 THEN 0
    ELSE IF tokens[i] \in Closers THEN Encl(tokens, i - 1, depth + 1)
    ELSE IF tokens[i] \in Openers
    THEN IF depth = 0 THEN i ELSE Encl(tokens, i - 1, depth - 1)
    ELSE Encl(tokens, i - 1, depth)

Combinators == {"Pseq", "Prand", "Pwrand", "Ppar"}
PitchKeys == {"\\midinote", "\\note", "\\degree", "\\freq"}

\* position j opens the item list of a sequence/choice combinator
ItemList(tokens, j) ==
    /\ j >= 3
    /\ tokens[j] = "["
    /\ tokens[j - 1] = "("
    /\ tokens[j - 2] \in Combinators

\* the combinator whose item list opens at j is the value of a pitch key
PitchValue(tokens, j) ==
    /\ j >= 5
    /\ tokens[j - 3] = ","
    /\ tokens[j - 4] \in PitchKeys

\* token i is a pitch integer that is a direct element of a combinator's item
\* list, the combinator not being the value of a pitch key
BareMidi(tokens, i) ==
    /\ is_midi_number(<<tokens[i]>>)
    /\ LET j == Encl(tokens, i - 1, 0)
       IN  IF j = 0 THEN FALSE
           ELSE ItemList(tokens, j) /\ ~PitchValue(tokens, j)

\* C1: the text emit_scd returns is delimiter-balanced: for each of (), []
\* and {} the running count of opens minus closes is never negative and is
\* zero at the end
C1_Balanced == pc = "done" => Balanced(Text)

\* C2: no pitch integer of the emitted text is a direct list element of a
\* sequence/choice combinator, unless the combinator is the value of a pitch
\* key of a Pbind
C2_NoBarePitch ==
    \A p \in DOMAIN parts : \A i \in DOMAIN parts[p] : ~BareMidi(parts[p], i)

\* the comment appears in the text outside every list literal and argument
\* list
Hoisted(tokens, comment) ==
    \E i \in 1..(Len(tokens) - 1) :
        /\ tokens[i] = comment[1]
        /\ tokens[i + 1] = comment[2]
        /\ LET j == Encl(tokens, i - 1, 0)
           IN  IF j = 0 THEN TRUE ELSE tokens[j] = "{"

\* C3: every comment generated for a right-hand-side element appears in the
\* returned text, next to the enclosing construct and never inside a list
\* literal or an argument list
C3_CommentsEmitted ==
    pc = "done" => \A k \in DOMAIN self.pre_comments : Hoisted(Text, self.pre_comments[k])

\* C4: emission completes and returns text; no emission-time anomaly raises
\* an exception
C4_NeverRaises == pc # "raised"

\* the rule group whose Pdef was emitted last, and the Pdef itself
LastGroup == active_rules(group_rules(blk, lhs_groups(blk)[grp]))
LastPdef == parts[Len(parts) - 1]

\* a symbol has just been compiled
SymbolDone == pc = "blocks" /\ grp > 0

\* the names of the context symbols of a rule: every named left-hand symbol
\* after the first
ContextNames(rule) ==
    SelectSeq([i \in 1..(Len(rule.lhs) - 1) |-> symbol_name(rule.lhs[i + 1])],
              LAMBDA n : n # "")

\* the right-hand positions the pass-through stripping keeps: those without a
\* name, and those of a name n but for its last k occurrences, n being a
\* context symbol k times
KeptPositions(rule) ==
    LET ctx == ContextNames(rule)
        name(i) == symbol_name(rule.rhs[i])
        later(i) == Cardinality({j \in i..Len(rule.rhs) : name(j) = name(i)})
        asked(i) == Cardinality({k \in DOMAIN ctx : ctx[k] = name(i)})
    IN  {i \in DOMAIN rule.rhs : name(i) = "" \/ later(i) > asked(i)}

\* the elements at the kept positions, in their original order
Kept(rule) ==
    LET keep == KeptPositions(rule)
    IN  [k \in 1..Cardinality(keep) |->
            rule.rhs[CHOOSE i \in keep : Cardinality({j \in keep : j < i}) = k - 1]]

\* the names the Pdef body references as Pdef(\name)
Referenced(tokens) ==
    {tokens[i + 2] : i \in {k \in 5..(Len(tokens) - 3) :
                             /\ tokens[k] = "Pdef" /\ tokens[k + 1] = "("
                             /\ tokens[k + 3] = ")"}}

\* C8: the body of a rule with several left-hand symbols is built from the
\* right-hand side less, for each context symbol, the last remaining element
\* of that name; the others are kept in order, and the body references exactly
\* the names kept
C8_PassThrough ==
    /\ self.current_rule # NoRule => self.elements = Kept(self.current_rule)
    /\ (SymbolDone /\ Len(LastGroup) = 1 /\ Len(LastGroup[1].lhs) > 1) =>
          Referenced(LastPdef) =
             {Sym(symbol_name(self.elements[i])) :
                 i \in {k \in DOMAIN self.elements :
                          self.elements[k].t \in {"NonTerminal", "Variable"}}}

\* |o| |miny| --> |o1| |miny| has been compiled to a body that references o1
C8_Witness ==
    /\ SymbolDone
    /\ self.current_rule.lhs = <<Variable("o"), Variable("miny")>>
    /\ self.current_rule.rhs = <<Variable("o1"), Variable("miny")>>
    /\ self.elements = <<Variable("o1")>>
    /\ Referenced(LastPdef) = {Sym("o1")}

\* the last symbol compiled has several active unflagged rules in an RND or
\* LIN block, none with a weight decrement
ChoiceCase ==
    /\ SymbolDone
    /\ bp.grammars[blk].mode \in {"RND", "LIN"}
    /\ Len(LastGroup) > 1
    /\ \A i \in DOMAIN LastGroup :
          /\ LastGroup[i].flags = <<>>
          /\ LastGroup[i].weight.decrement = None

\* the weight of a rule: the declared one, 1 if none is declared
EffectiveWeight(r) == IF r.weight = NoWeight THEN 1 ELSE r.weight.value

\* the weight list of a Pwrand: the tokens of the list .normalizeSum follows
WeightList(tokens) ==
    LET k == CHOOSE i \in DOMAIN tokens : tokens[i] = ".normalizeSum"
    IN  SelectSeq(SubSeq(tokens, Encl(tokens, k - 2, 0) + 1, k - 2), LAMBDA t : t # ",")

IsUniform(tokens) == "Prand" \in Range(tokens) /\ "Pwrand" \notin Range(tokens)

IsWeighted(tokens, rules) ==
    /\ "Pwrand" \in Range(tokens) /\ "Prand" \notin Range(tokens)
    /\ WeightList(tokens) = [i \in DOMAIN rules |-> ToString(EffectiveWeight(rules[i]))]

\* C10 as stated: the body is a uniform choice exactly when no rule declares a
\* weight, and otherwise a weighted choice over the declared weights, 1 for
\* the rules that declare none
C10_AsStated ==
    ChoiceCase =>
        IF \A i \in DOMAIN LastGroup : LastGroup[i].weight = NoWeight
        THEN IsUniform(LastPdef)
        ELSE IsWeighted(LastPdef, LastGroup)

\* C10: the body is a uniform choice exactly when every rule's weight, declared
\* or defaulted to 1, is 1, and otherwise a weighted choice over the declared
\* weights, 1 for the rules that declare none
C10_Choice ==
    ChoiceCase =>
        IF \A i \in DOMAIN LastGroup : EffectiveWeight(LastGroup[i]) = 1
        THEN IsUniform(LastPdef)
        ELSE IsWeighted(LastPdef, LastGroup)

\* a weighted choice over a declared weight 3 and a defaulted weight
C10_Witness ==
    /\ ChoiceCase
    /\ Len(LastGroup) = 2
    /\ LastGroup[1].weight = Weight(3, None)
    /\ LastGroup[2].weight = NoWeight
    /\ IsWeighted(LastPdef, LastGroup)
    /\ WeightList(LastPdef) = <<"3", "1">>

(***************************************************************************)
(* Several invocations of emit_scd in one process.                         *)
(***************************************************************************)
\* the number of invocations recorded
MaxRuns == 3

\* files whose emission leaves state behind in the instance or in the module:
\* a pending _repeat, a loaded scale table, a homomorphism label, a velocity
\* range, an exception, and a file that such state would change
FilesRuns ==
    {OneBlock("ORD", <<PlainRule(NoWeight, <<>>, <<NonTerminal("S")>>, rhs)>>) :
        rhs \in {<<HomoApply("master", <<fa4, sol4>>)>>,
                 <<fa4, SpecialFn("repeat", <<"2">>)>>,
                 <<SpecialFn("scale", <<"todi_ka_4">>), SpecialFn("rndvel", <<"10">>),
                   SpecialFn("vel", <<"80">>), fa4>>,
                 <<HomoApply("ref", <<NonTerminal("mineur")>>)>>,
                 <<Polymetric(None, <<<<SpecialFn("scale", <<>>), fa4>>>>)>>}}

\* the arguments of the invocation in progress
Args ==
    [bp |-> bp, start_symbol |-> start_symbol, seed |-> seed,
     alphabet_files |-> alphabet_files, max_dur |-> max_dur]

\* emit_scd returns, or its exception reaches the caller, who records the
\* outcome and calls again with other arguments
Return ==
    /\ pc \in {"done", "raised"}
    /\ Len(runs) < MaxRuns
    /\ runs' = Append(runs, [args |-> Args,
                             out |-> IF pc = "done" THEN Text ELSE <<"raised">>])
    /\ bp' \in FilesRuns
    /\ \E o \in Options :
          /\ seed' = o.seed
          /\ alphabet_files' = o.alphabet_files
          /\ max_dur' = o.max_dur
    /\ pc' = "call"
    /\ UNCHANGED <<start_symbol, self, blk, grp, parts, prout, frout, lex, call>>

InitRuns == InitCall(FilesRuns)

NextRuns == Next \/ Return

SpecRuns == InitRuns /\ [][NextRuns]_vars

MaxBlocks == 3

\* the rule of a block: X --> fa4, Y --> X, or X --> X sol4
BlockRule(index, choice) ==
    CASE choice = 1 -> Rule(index, 1, NoWeight, <<>>, <<NonTerminal("X")>>, <<fa4>>, "")
      [] choice = 2 ->
           Rule(index, 1, NoWeight, <<>>, <<NonTerminal("Y")>>, <<NonTerminal("X")>>, "")
      [] OTHER ->
           Rule(index, 1, NoWeight, <<>>, <<NonTerminal("X")>>,
                <<NonTerminal("X"), sol4>>, "")

\* files of n blocks of one rule each, as parse_text numbers them: a block's
\* index is the one its mode line gives, its position if the line gives none
FilesBlocks(n) ==
    {BPFile(<<>>, [b \in 1..n |->
                     GrammarBlock("ORD", index[b], "", <<>>,
                                  <<BlockRule(index[b], choice[b])>>)]) :
        <<index, choice>> \in [1..n -> 1..MaxBlocks] \X [1..n -> 1..3]}

\* files of 2 .. MaxBlocks blocks
InitBlocks == \E n \in 2..MaxBlocks : InitCall(FilesBlocks(n))

SpecBlocks == InitBlocks /\ [][Next]_vars

\* the names the emitted text defines as Pdef(\name, ...)
DefinedNames ==
    {parts[p][3] : p \in {q \in DOMAIN parts :
                            /\ Len(parts[q]) >= 4 /\ parts[q][1] = "Pdef"
                            /\ parts[q][2] = "(" /\ parts[q][4] = ","}}

\* the blocks, by position, that have a rule whose primary left-hand symbol is
\* name
DefiningBlocks(name) ==
    {b \in DOMAIN bp.grammars :
        \E i \in DOMAIN bp.grammars[b].rules : lhs_name(bp.grammars[b].rules[i]) = name}

\* the names a pattern of the symbol can have: the plain one and the ones
\* suffixed with a block index
VersionsOf(name) ==
    {Sym(name)} \cup {Sym(name \o "_g" \o ToString(k)) : k \in 0..(MaxBlocks + 1)}

\* C6: a symbol that is the primary left-hand symbol of rules in two different
\* blocks compiles to pattern definitions of different names, one per defining
\* block
C6_DistinctPdefs ==
    pc = "done" =>
        \A name \in {"X", "Y"} :
            Cardinality(DefiningBlocks(name)) >= 2 =>
                Cardinality(DefinedNames \cap VersionsOf(name))
                    = Cardinality(DefiningBlocks(name))

\* the name of the pattern a reference to name, compiled in block b, is to
\* resolve to: block b's own if b defines name, else that of the defining
\* block of smallest index
Resolution(name, b) ==
    LET D == DefiningBlocks(name)
        first == CHOOSE c \in D : \A d \in D : bp.grammars[c].index <= bp.grammars[d].index
    IN  IF b \in D THEN pdef_name(name, b) ELSE pdef_name(name, first)

\* C7: a reference to a symbol X defined in more than one block, compiled
\* while emitting block b, resolves to block b's pattern for X when b defines
\* X, and otherwise to the pattern of the defining block of smallest index
C7_Resolution ==
    (/\ SymbolDone
     /\ Cardinality(DefiningBlocks("X")) >= 2
     /\ \E i \in DOMAIN LastGroup[1].rhs : LastGroup[1].rhs[i] = NonTerminal("X"))
    => Referenced(LastPdef) \cap VersionsOf("X") = {Sym(Resolution("X", blk))}

(***************************************************************************)
(* The decrementing-weight machine: the routine a decrement Pdef compiles  *)
(* to, run from its emitted text.                                          *)
(***************************************************************************)
\* the number of rules of the symbol
MaxDecRules == 2

\* weights <w>, <w-d> and none
DecWeights == {NoWeight, Weight(2, None), Weight(3, 2), Weight(2, 3), Weight(1, 0)}

\* 2 .. MaxDecRules alternatives of S in an RND block, the first with a
\* decrement
FilesDec ==
    UNION {{OneBlock("RND", [i \in 1..n |->
                                PlainRule(ws[i], <<>>, <<NonTerminal("S")>>, Alt(i))]) :
              ws \in {f \in [1..n -> DecWeights] : f[1].decrement # None}} :
           n \in 2..MaxDecRules}

\* the position in the Pdef of the declaration of counter i, "var wi = ..."
DeclAt(tokens, i) ==
    CHOOSE k \in 1..(Len(tokens) - 3) :
        tokens[k] = "var" /\ tokens[k + 1] = WVar(i) /\ tokens[k + 2] = "="

\* the positions of the statements that assign counter i, "wi = (wi - d) ..."
StmtsAt(tokens, i) ==
    {k \in 1..(Len(tokens) - 7) :
        /\ tokens[k] = WVar(i) /\ tokens[k + 1] = "=" /\ tokens[k + 2] = "("
        /\ tokens[k + 3] = WVar(i) /\ tokens[k + 4] = "-" /\ tokens[k + 6] = ")"}

\* the number of counters the Pdef declares
Counters(tokens) ==
    Cardinality({k \in 1..(Len(tokens) - 1) :
                    tokens[k] = "var" /\ tokens[k + 1] \notin {"total", "r"}})

\* the value of counter i after the statement at k: (wi - d), with .max(0)
\* when the statement has it
Assigned(tokens, k, w) ==
    LET lowered == w - ParseInt(tokens[k + 5]).v
    IN  IF k + 7 <= Len(tokens) /\ tokens[k + 7] = ".max"
        THEN Max(ParseInt(tokens[k + 9]).v, lowered)
        ELSE lowered

\* counter i after branch i has run
AfterBranch(tokens, i, w) ==
    IF StmtsAt(tokens, i) = {} THEN w
    ELSE Assigned(tokens, CHOOSE k \in StmtsAt(tokens, i) : TRUE, w)

\* the sum of counters 1 .. n
RECURSIVE Total(_, _)
Total(w, n) == IF n = 0 THEN 0 ELSE w[n] + Total(w, n - 1)

\* the positions of the tests "if(r < ...)" of the chain
TestsAt(tokens) ==
    {k \in 1..(Len(tokens) - 4) :
        tokens[k] = "if" /\ tokens[k + 1] = "(" /\ tokens[k + 2] = "r" /\ tokens[k + 3] = "<"}

\* the value of the threshold of the test at k: the sum of the counters named
\* before the parenthesis that closes it
Threshold(tokens, k, w) ==
    LET close == CHOOSE q \in (k + 4)..Len(tokens) :
                     /\ tokens[q] = ")"
                     /\ \A j \in (k + 5)..(q - 1) : tokens[j] # ")"
    IN  Total([i \in DOMAIN w |->
                  IF \E j \in (k + 4)..(close - 1) : tokens[j] = WVar(i - 1)
                  THEN w[i] ELSE 0], Len(w))

\* the branch the if-chain takes for r: that of the first test that holds,
\* else the block that follows the chain (the bare "{" of the last rule, read
\* as the else-branch)
Branch(tokens, w, r) ==
    LET hits == {k \in TestsAt(tokens) : r < Threshold(tokens, k, w)}
        first == CHOOSE k \in hits : \A j \in hits : k <= j
    IN  IF hits = {} THEN Cardinality(TestsAt(tokens)) + 1
        ELSE Cardinality({k \in TestsAt(tokens) : k <= first})

\* the position of the embedInStream of branch i (1-based)
EmbedAt(tokens, i) ==
    CHOOSE k \in DOMAIN tokens :
        /\ tokens[k] = Embed[1]
        /\ Cardinality({j \in 1..k : tokens[j] = Embed[1]}) = i

\* counter i while the body of branch i streams: the statements of the
\* branch that stand before its embedInStream have run
WhileStreaming(tokens, i, w) ==
    LET before == {k \in StmtsAt(tokens, i - 1) : k < EmbedAt(tokens, i)}
    IN  IF before = {} THEN w
        ELSE Assigned(tokens, CHOOSE k \in before : TRUE, w)

\* the Pdefs of the text that are decrement routines
Routines == {p \in DOMAIN parts : "total.rand" \in Range(parts[p])}

\* the routine is started: its counters are declared
ProutStart ==
    /\ pc = "done"
    /\ prout.line = 0
    /\ \E p \in Routines :
          prout' = [line |-> p,
                    w |-> [i \in 1..Counters(parts[p]) |->
                              ParseInt(parts[p][DeclAt(parts[p], i - 1) + 3]).v],
                    last |-> 0,
                    prev |-> <<>>,
                    r |-> 0,
                    during |-> <<>>]
    /\ UNCHANGED <<bp, start_symbol, seed, max_dur, alphabet_files, self, pc, blk, grp,
                   parts, runs, frout, lex,
                   call>>

\* one turn of inf.do: r = total.rand selects a branch, whose statements run
\* in the order of the text: during holds the counters while the pattern is
\* embedded, w the counters when the branch is left
ProutSelect ==
    /\ prout.line > 0
    /\ \E r \in 0..Max(0, Total(prout.w, Len(prout.w)) - 1) :
          LET i == Branch(parts[prout.line], prout.w, r)
          IN  prout' = [prout EXCEPT
                           !.w[i] = AfterBranch(parts[prout.line], i - 1, @),
                           !.last = i,
                           !.prev = prout.w,
                           !.r = r,
                           !.during = [prout.w EXCEPT
                                          ![i] = WhileStreaming(parts[prout.line], i, @)]]
    /\ UNCHANGED <<bp, start_symbol, seed, max_dur, alphabet_files, self, pc, blk, grp,
                   parts, runs, frout, lex,
                   call>>

InitDec == InitCall(FilesDec)

NextDec == Next \/ ProutStart \/ ProutSelect

SpecDec == InitDec /\ [][NextDec]_vars

\* the rules of the symbol the routine was compiled for
RoutineRules == active_rules(group_rules(1, "S"))

\* the declared decrement of a rule, 0 if it declares none
Decrement(r) ==
    IF r.weight # NoWeight /\ r.weight.decrement # None THEN r.weight.decrement ELSE 0

\* C9: each counter of the decrement machine starts at its rule's declared
\* weight (1 if none), stays between 0 and that value, and a selection lowers
\* only the selected rule's counter, by its declared decrement clamped at 0
C9_Counters ==
    prout.line > 0 =>
        /\ Len(prout.w) = Len(RoutineRules)
        /\ \A i \in DOMAIN prout.w :
              /\ prout.w[i] >= 0
              /\ prout.w[i] <= EffectiveWeight(RoutineRules[i])
              /\ prout.last = 0 => prout.w[i] = EffectiveWeight(RoutineRules[i])
              /\ prout.last # 0 =>
                    prout.w[i] = IF i = prout.last
                                 THEN Max(0, prout.prev[i] - Decrement(RoutineRules[i]))
                                 ELSE prout.prev[i]

\* the rule declared <2-3> was selected and its counter went from 2 to 0
C9_Witness ==
    /\ prout.line > 0
    /\ prout.last = 1
    /\ RoutineRules[1].weight = Weight(2, 3)
    /\ prout.prev[1] = 2
    /\ prout.w[1] = 0

(***************************************************************************)
(* Flag variables: files whose rules carry guards and operations on the    *)
(* start symbol, on other symbols and on context left-hand sides.          *)
(***************************************************************************)
\* the number of rules of a file of the pool
MaxFlagRules == 2

\* the flag lists of a rule of the pool
FlagLists ==
    {<<>>,
     <<Flag("Ideas", "=", "4")>>,
     <<Flag("Notes", "", ""), Flag("Ideas", "=", "4")>>,
     <<Flag("Ideas", "=", "4"), Flag("Ideas", "=", "5")>>,
     <<Flag("Parts", "+", "1")>>,
     <<Flag("Notes", ">", "2"), Flag("Notes", "=", "2")>>}

\* the left-hand sides of a rule of the pool
FlagLhs ==
    {<<NonTerminal("S")>>, <<NonTerminal("A")>>, <<NonTerminal("A"), NonTerminal("S")>>}

\* the sequences of rules of the pool
FlagRuleSeqs ==
    SeqsUpTo({PlainRule(NoWeight, fl, lhs, Alt(2)) :
                 <<fl, lhs>> \in FlagLists \X FlagLhs}, MaxFlagRules)

FilesInit == {OneBlock("RND", rules) : rules \in FlagRuleSeqs}

InitFlags == InitCall(FilesInit)

SpecFlags == InitFlags /\ [][Next]_vars

\* the names of the flags of every rule of the file
AllFlagNames ==
    UNION {{AllRules[k][2].flags[i].name : i \in DOMAIN AllRules[k][2].flags} :
              k \in DOMAIN AllRules}

\* the positions of the text where a statement ~name = value; stands outside
\* every routine body
InitStatements(tokens, name) ==
    {i \in 1..(Len(tokens) - 3) :
        /\ tokens[i] = "~" \o name
        /\ tokens[i + 1] = "="
        /\ tokens[i + 3] = ";"
        /\ Count(tokens, "{", i) = Count(tokens, "}", i)}

\* the flags of the first rule in file order with the start symbol on its
\* left-hand side
StartFlags ==
    LET hits == {k \in DOMAIN AllRules :
                    \E i \in DOMAIN AllRules[k][2].lhs :
                        AllRules[k][2].lhs[i] \in {NonTerminal(start_symbol),
                                                   Variable(start_symbol)}}
    IN  IF hits = {} THEN <<>>
        ELSE AllRules[CHOOSE k \in hits : \A j \in hits : k <= j][2].flags

\* the values N of the operations name=N among the flags
Assignments(flags, name) ==
    {flags[i].value : i \in {j \in DOMAIN flags : flags[j].name = name /\ flags[j].op = "="}}

\* C11: the output has exactly one initialization statement for every
\* distinct flag name of the file's rules; its value is N when the first rule
\* in file order with the start symbol on its left-hand side carries name=N,
\* and 0 otherwise
C11_FlagInit ==
    pc = "done" =>
        \A name \in AllFlagNames :
            /\ Cardinality(InitStatements(Text, name)) = 1
            /\ \A i \in InitStatements(Text, name) :
                  IF Assignments(StartFlags, name) = {} THEN Text[i + 2] = "0"
                  ELSE Text[i + 2] \in Assignments(StartFlags, name)

\* the text of a file whose second rule is the first one of the start
\* symbol and sets Ideas to 4 initializes Ideas to 4 and Parts to 0
C11_Witness ==
    /\ pc = "done"
    /\ Len(AllRules) = 2
    /\ AllRules[1][2].lhs = <<NonTerminal("A")>>
    /\ AllRules[1][2].flags = <<Flag("Parts", "+", "1")>>
    /\ AllRules[2][2].lhs = <<NonTerminal("A"), NonTerminal("S")>>
    /\ AllRules[2][2].flags = <<Flag("Notes", "", ""), Flag("Ideas", "=", "4")>>
    /\ \E i \in InitStatements(Text, "Ideas") : Text[i + 2] = "4"
    /\ \E i \in InitStatements(Text, "Parts") : Text[i + 2] = "0"
    /\ \E i \in InitStatements(Text, "Notes") : Text[i + 2] = "0"

(***************************************************************************)
(* Terminal sound-objects: files whose rule refers to undefined symbols,   *)
(* among them names of the Anglo-note pattern, nested ones and a           *)
(* homomorphism label.                                                     *)
(***************************************************************************)
\* the elements of the right-hand sides of the pool
TerminalElems ==
    {NonTerminal("C4"), NonTerminal("ek"), NonTerminal("tin"), NonTerminal("S"),
     Polymetric(None, <<<<NonTerminal("ek"), NonTerminal("Bb3")>>>>),
     HomoApply("ref", <<NonTerminal("mineur")>>)}

FilesTerminals ==
    {OneBlock("ORD", <<PlainRule(NoWeight, <<>>, <<NonTerminal("S")>>, rhs)>>) :
        rhs \in SeqsUpTo(TerminalElems, MaxRhs)}

InitTerminals == InitCall(FilesTerminals)

SpecTerminals == InitTerminals /\ [][Next]_vars

\* the NonTerminal names below the elements, those of a homomorphism
\* reference excepted
RECURSIVE NamesBelow(_)
NamesBelow(elements) ==
    UNION {IF elements[i].t = "NonTerminal" THEN {elements[i].name}
           ELSE IF elements[i].t = "Polymetric"
                   \/ (elements[i].t = "HomoApply" /\ elements[i].name # "ref")
           THEN UNION {NamesBelow(elements[i].kids[v]) : v \in DOMAIN elements[i].kids}
           ELSE {} : i \in DOMAIN elements}

\* the names of a homomorphism reference anywhere at the top of a rule body
LabelNames ==
    UNION {UNION {IF AllRules[k][2].rhs[i].t = "HomoApply"
                     /\ AllRules[k][2].rhs[i].name = "ref"
                  THEN {AllRules[k][2].rhs[i].kids[1][j].name :
                           j \in DOMAIN AllRules[k][2].rhs[i].kids[1]}
                  ELSE {} : i \in DOMAIN AllRules[k][2].rhs} : k \in DOMAIN AllRules}

\* the right-hand-side NonTerminals that no rule defines and that are no
\* homomorphism label
UndefinedNames ==
    (UNION {NamesBelow(AllRules[k][2].rhs) : k \in DOMAIN AllRules})
    \ (LabelNames \cup {lhs.name : lhs \in UNION {Range(AllRules[k][2].lhs) :
                                                     k \in DOMAIN AllRules}})

\* one entry for every undefined name, and no two names with the same pitch
TerminalTable(tm) ==
    /\ {tm[i].name : i \in DOMAIN tm} = UndefinedNames
    /\ \A i, j \in DOMAIN tm : i # j => tm[i].name # tm[j].name /\ tm[i].midi # tm[j].midi

\* C14: the terminal-pitch table has exactly one entry for every
\* right-hand-side NonTerminal that is never defined and is no homomorphism
\* label, an entry never changes once assigned, and two different terminal
\* names never have the same pitch
C14_Terminals ==
    /\ [](pc # "call" => TerminalTable(self.terminal_midi))
    /\ [][pc # "call" => self'.terminal_midi = self.terminal_midi]_vars

(***************************************************************************)
(* Pattern names: references and definitions in the returned text.         *)
(***************************************************************************)
\* the names the text references as Pdef(\name), the play statement included
PatternRefs(tokens) ==
    {tokens[k + 2] : k \in {i \in 1..(Len(tokens) - 3) :
                               /\ tokens[i] = "Pdef" /\ tokens[i + 1] = "("
                               /\ tokens[i + 3] = ")"}}

\* the names the text defines as Pdef(\name, pattern)
PatternDefs(tokens) ==
    {tokens[k + 2] : k \in {i \in 1..(Len(tokens) - 3) :
                               /\ tokens[i] = "Pdef" /\ tokens[i + 1] = "("
                               /\ tokens[i + 3] = ","}}

\* C17: every pattern name the returned text references, in a rule body or
\* in the play statement of the start symbol, is the name of a pattern
\* definition of the same text
C17_RefsDefined == pc = "done" => PatternRefs(Text) \subseteq PatternDefs(Text)

\* C19: in each iteration of the decrement machine the selected rule's
\* counter is decremented, and clamped at zero, before that rule's body
\* starts streaming: the counter holds its new value while the body's events
\* are yielded
C19_DecrementFirst ==
    (prout.line > 0 /\ prout.last # 0) =>
        prout.during[prout.last]
            = Max(0, prout.prev[prout.last] - Decrement(RoutineRules[prout.last]))

\* the tokens that open the block of the last rule of the routine
LastBlockAt(tokens) ==
    LET n == Cardinality({j \in DOMAIN tokens : tokens[j] = Embed[1]})
        opens == {k \in 1..EmbedAt(tokens, n) :
                     /\ tokens[k] = "{"
                     /\ IF n = 1 THEN TRUE ELSE k > EmbedAt(tokens, n - 1)}
    IN  CHOOSE k \in opens : \A j \in opens : k <= j

\* the least rule whose cumulative threshold exceeds r, the last rule if none
Selected(w, r) ==
    LET hits == {i \in DOMAIN w : r < Total(w, i)}
    IN  IF hits = {} THEN Len(w) ELSE CHOOSE i \in hits : \A j \in hits : i <= j

\* C20: in each iteration of the decrement machine with counters w0..w(n-1)
\* and a draw 0 <= r < w0+...+w(n-1), exactly one rule body is streamed, that
\* of the least i with r < w0+...+wi, the last rule being the catch-all (the
\* else-branch of the chain); a rule whose counter is 0 is never selected
\* while the total is positive, and with all counters 0 the last rule is
\* selected
C20_Selection ==
    /\ \A p \in Routines : parts[p][LastBlockAt(parts[p]) - 1] = "}"
    /\ (prout.line > 0 /\ prout.last # 0) =>
          /\ prout.last = Selected(prout.prev, prout.r)
          /\ Total(prout.prev, Len(prout.prev)) > 0 => prout.prev[prout.last] > 0
          /\ Total(prout.prev, Len(prout.prev)) = 0 => prout.last = Len(prout.prev)

(***************************************************************************)
(* The routine of a compiled flag Pdef: the statements of its inf.do body  *)
(* are run in the order and nesting of the emitted text.  env holds the    *)
(* value of each flag variable, in the order of flag_names.                *)
(***************************************************************************)
\* the largest flag value from which an iteration is still run
MaxFlagValue == 6

\* the position of the delimiter that closes the one opened at i
MatchAt(tokens, i) ==
    LET close == CASE tokens[i] = "(" -> ")" [] tokens[i] = "[" -> "]" [] OTHER -> "}"
        level(j) == Cardinality({k \in i..j : tokens[k] = tokens[i]})
                    - Cardinality({k \in i..j : tokens[k] = close})
        ends == {j \in (i + 1)..Len(tokens) : tokens[j] = close /\ level(j) = 0}
    IN  CHOOSE j \in ends : \A k \in ends : j <= k

\* the index of the flag variable a token names, 0 if none
FlagVar(token) ==
    LET hits == {n \in DOMAIN flag_names : token = "~" \o flag_names[n]}
    IN  IF hits = {} THEN 0 ELSE CHOOSE n \in hits : TRUE

\* the guard between a and b holds: every comparison (~name op value) of it
GuardHolds(tokens, a, b, env) ==
    \A k \in a..(b - 4) :
        (tokens[k] = "(" /\ FlagVar(tokens[k + 1]) # 0 /\ tokens[k + 4] = ")") =>
            IF tokens[k + 2] = ">"
            THEN env[FlagVar(tokens[k + 1])] > ParseInt(tokens[k + 3]).v
            ELSE env[FlagVar(tokens[k + 1])] < ParseInt(tokens[k + 3]).v

\* the statements between i and j are run: st is [env, ran], ran the
\* embedInStream statements run, each by its rank in the routine
RECURSIVE ExecBlock(_, _, _, _)
ExecBlock(tokens, i, j, st) ==
    IF i > j THEN st
    ELSE IF tokens[i] = "if"
    THEN LET test == MatchAt(tokens, i + 1)
             then == MatchAt(tokens, test + 1)
             else == IF then < j /\ tokens[then + 1] = "{"
                     THEN MatchAt(tokens, then + 1) ELSE then
         IN  ExecBlock(tokens, else + 1, j,
                 IF GuardHolds(tokens, i + 2, test - 1, st.env)
                 THEN ExecBlock(tokens, test + 2, then - 1, st)
                 ELSE IF else > then THEN ExecBlock(tokens, then + 2, else - 1, st)
                 ELSE st)
    ELSE IF FlagVar(tokens[i]) # 0 /\ tokens[i + 1] = "="
    THEN LET v == FlagVar(tokens[i])
         IN  IF tokens[i + 3] = ";"
             THEN ExecBlock(tokens, i + 4, j,
                            [st EXCEPT !.env[v] = ParseInt(tokens[i + 2]).v])
             ELSE ExecBlock(tokens, i + 6, j,
                            [st EXCEPT !.env[v] =
                                IF tokens[i + 3] = "+"
                                THEN st.env[FlagVar(tokens[i + 2])]
                                     + ParseInt(tokens[i + 4]).v
                                ELSE st.env[FlagVar(tokens[i + 2])]
                                     - ParseInt(tokens[i + 4]).v])
    ELSE LET embeds == {k \in i..j : tokens[k] = Embed[1]}
             e == CHOOSE k \in embeds : \A q \in embeds : k <= q
         IN  ExecBlock(tokens, e + Len(Embed), j,
                       [st EXCEPT !.ran =
                           Append(@, Cardinality({k \in 1..e : tokens[k] = Embed[1]}))])

\* the position of inf.do in the Pdef
LoopAt(tokens) == CHOOSE k \in DOMAIN tokens : tokens[k] = "inf.do"

\* the Pdefs of the text that are flag routines the interpreter accepts
FlagRoutines ==
    {p \in DOMAIN parts : /\ "inf.do" \in Range(parts[p])
                          /\ "total.rand" \notin Range(parts[p])
                          /\ Balanced(parts[p])}

\* the flag variables as the text initializes them
InitialEnv ==
    [n \in DOMAIN flag_names |->
        ParseInt(Text[(CHOOSE i \in InitStatements(Text, flag_names[n]) : TRUE) + 2]).v]

\* the text is played and a routine is started
FlagStart ==
    /\ pc = "done"
    /\ frout.line = 0
    /\ \E p \in FlagRoutines :
          frout' = [line |-> p, env |-> InitialEnv, pre |-> InitialEnv, ran |-> <<>>,
                    turn |-> FALSE]
    /\ UNCHANGED <<bp, start_symbol, seed, max_dur, alphabet_files, self, pc, blk, grp,
                   parts, runs, prout, lex, call>>

\* one turn of inf.do
FlagIterate ==
    /\ frout.line > 0
    /\ \A n \in DOMAIN frout.env : frout.env[n] < MaxFlagValue /\ frout.env[n] > 0 - MaxFlagValue
    /\ LET tokens == parts[frout.line]
           st == ExecBlock(tokens, LoopAt(tokens) + 2, MatchAt(tokens, LoopAt(tokens) + 1) - 1,
                           [env |-> frout.env, ran |-> <<>>])
       IN  frout' = [frout EXCEPT !.env = st.env, !.pre = frout.env, !.ran = st.ran,
                                  !.turn = TRUE]
    /\ UNCHANGED <<bp, start_symbol, seed, max_dur, alphabet_files, self, pc, blk, grp,
                   parts, runs, prout, lex, call>>

NextFlagRun == Next \/ FlagStart \/ FlagIterate

SpecFlagRun == InitFlags /\ [][NextFlagRun]_vars

\* the flagged rules of the symbol the routine was compiled for, in declared
\* order
FlaggedRules ==
    LET name == CHOOSE n \in {"S", "A"} : parts[frout.line][3] = Sym(n)
    IN  SelectSeq(group_rules(1, name), LAMBDA r : r.flags # <<>>)

\* every guard of the rule holds in env
GuardsHold(rule, env) ==
    \A i \in DOMAIN rule.flags :
        LET f == rule.flags[i]
            v == env[CHOOSE n \in DOMAIN flag_names : flag_names[n] = f.name]
        IN  CASE f.op = "" -> v > 0
              [] f.op = ">" -> v > ParseInt(f.value).v
              [] f.op = "<" -> v < ParseInt(f.value).v
              [] OTHER -> TRUE

\* the rank of the alternative that has to run: the first flagged rule whose
\* guards hold, else the fallback that follows the flagged rules
Alternative(env) ==
    LET hits == {i \in DOMAIN FlaggedRules : GuardsHold(FlaggedRules[i], env)}
    IN  IF hits = {} THEN Len(FlaggedRules) + 1
        ELSE CHOOSE i \in hits : \A j \in hits : i <= j

\* C18: in each iteration of a compiled flag machine exactly one alternative
\* runs: the first flagged rule in declared order all of whose guards hold,
\* or the fallback when there is none; the body of a rule never runs in an
\* iteration in which another rule was selected, rules that carry only
\* operation flags included
C18_OneAlternative ==
    (frout.line > 0 /\ frout.turn) => frout.ran = <<Alternative(frout.pre)>>

(***************************************************************************)
(* A call of a pure function: the arguments are drawn, the function is     *)
(* applied once.                                                           *)
(***************************************************************************)
EmptyFile == [headers |-> <<>>, grammars |-> <<>>]

\* a process in which the parser is at l and the pure function call at c
InitWith(l, c) ==
    /\ bp = EmptyFile
    /\ seed = None
    /\ alphabet_files = <<>>
    /\ max_dur = None
    /\ start_symbol = "S"
    /\ self = NoEmitter
    /\ pc = "pure"
    /\ blk = 0
    /\ grp = 0
    /\ parts = <<>>
    /\ runs = <<>>
    /\ prout = [line |-> 0, w |-> <<>>, last |-> 0, prev |-> <<>>, r |-> 0,
                during |-> <<>>]
    /\ frout = FlagIdle
    /\ lex = l
    /\ call = c

\* a process about to call the function of c
InitPure(c) == InitWith(LexIdle, c)

\* the largest octave digit
MaxOctave == 9

\* note_to_midi(name, octave) is about to be called
InitNote ==
    \E s \in Spellings, octave \in 0..MaxOctave :
        InitPure([fn |-> "note_to_midi", args |-> <<Str(s), octave>>, done |-> FALSE,
                  result |-> <<>>])

\* the call returns a pitch or raises ValueError
NoteToMidi ==
    /\ call.fn = "note_to_midi"
    /\ ~call.done
    /\ call' = [call EXCEPT !.done = TRUE,
                            !.result = note_to_midi(call.args[1], call.args[2])]
    /\ UNCHANGED <<bp, start_symbol, seed, max_dur, alphabet_files, self, pc, blk, grp,
                   parts, runs, prout, frout, lex>>

SpecNote == InitNote /\ [][NoteToMidi]_vars

\* the names the rule-body parser puts into a Note or a Tie: the French names
\* with an optional b or #, the Indian names, the Anglo letters with an
\* optional # or b
ParserNames ==
    {Str(s) : s \in WithAccidental(FrenchStems) \cup IndianSpelled
                    \cup WithAccidental(AngloLetters)}

\* the offset the tables give a name, French first
TableOffset(name) ==
    IF name \in DOMAIN FR_BASE THEN FR_BASE[name]
    ELSE IF name \in DOMAIN INDIAN_BASE THEN INDIAN_BASE[name]
    ELSE ANGLO_BASE[name]

InTables(name) ==
    name \in DOMAIN FR_BASE \cup DOMAIN INDIAN_BASE \cup DOMAIN ANGLO_BASE

\* C15 as stated: for every name the parser can produce the pitch resolver
\* returns (octave + 1) * 12 + the table offset of the name; for a name in
\* none of the three tables it raises the unknown-note error
C15_Original ==
    (call.fn = "note_to_midi" /\ call.done) =>
        /\ call.args[1] \in ParserNames =>
              call.result = [ok |-> TRUE,
                             v |-> (call.args[2] + 1) * 12 + TableOffset(call.args[1])]
        /\ ~InTables(call.args[1]) => ~call.result.ok

\* C15: for every name the parser can produce the pitch resolver returns
\* (octave + 1) * 12 + the table offset of the name; it raises the
\* unknown-note error exactly for a name that is no Anglo name and, with its
\* letters in lower case, neither a French nor an Indian name
C15_NoteToMidi ==
    (call.fn = "note_to_midi" /\ call.done) =>
        /\ call.args[1] \in ParserNames =>
              call.result = [ok |-> TRUE,
                             v |-> (call.args[2] + 1) * 12 + TableOffset(call.args[1])]
        /\ ~call.result.ok <=>
              /\ lower(call.args[1]) \notin DOMAIN FR_BASE \cup DOMAIN INDIAN_BASE
              /\ call.args[1] \notin DOMAIN ANGLO_BASE

\* a name of the tables was resolved, and a name of no table in any case raised
C15_Witness ==
    /\ call.fn = "note_to_midi" /\ call.done
    /\ \/ call.args = <<"sib", 4>> /\ call.result = [ok |-> TRUE, v |-> 70]
       \/ call.args = <<"ut", 4>> /\ ~call.result.ok

(***************************************************************************)
(* grammar/parser.py: the patterns.  A str is a sequence of characters;    *)
(* a matcher is given the text that remains (text[pos:]) and returns       *)
(* m.end(), 0 when the pattern does not match at its start.                *)
(***************************************************************************)
IsUpper(c) == c \in Range(Upper)
IsLower(c) == c \in Range(Lowercase)
IsDigit(c) == c \in Range(DigitChars)
IsAlpha(c) == IsUpper(c) \/ IsLower(c)
IsAlnum(c) == IsAlpha(c) \/ IsDigit(c)
\* \w
IsWord(c) == IsAlnum(c) \/ c = "_"
\* \s, and the characters str.strip() removes
IsSpace(c) == c \in {" ", "\t", "\n", "\r"}
\* [A-Za-z0-9_'\"]
IsNameChar(c) == IsWord(c) \/ c = "'" \/ c = "\""

\* text[i:i+1] at the 1-based index i: "" past the end
At(r, i) == IF i \in DOMAIN r THEN r[i] ELSE ""

\* text[a:b] for 0-based a and b
Slice(text, a, b) == IF b <= a THEN <<>> ELSE SubSeq(text, a + 1, b)

\* the number of consecutive characters of the class from index i on
Run(r, i, Class(_)) ==
    LET stops == {j \in i..(Len(r) + 1) : j = Len(r) + 1 \/ ~Class(r[j])}
    IN  (CHOOSE j \in stops : \A k \in stops : j <= k) - i

\* the first index from i on that holds c, 0 if there is none
Find(r, i, c) ==
    LET hits == {j \in i..Len(r) : r[j] = c}
    IN  IF hits = {} THEN 0 ELSE CHOOSE j \in hits : \A k \in hits : j <= k

BeginsWith(r, word) == Len(r) >= Len(word) /\ SubSeq(r, 1, Len(word)) = word

\* str.strip(), as the 0-based bounds <<a, b>> of the text kept in text[lo:hi]
StripBounds(text, lo, hi) ==
    LET kept == {j \in (lo + 1)..hi : ~IsSpace(text[j])}
    IN  IF kept = {} THEN <<lo, lo>>
        ELSE <<(CHOOSE j \in kept : \A k \in kept : j <= k) - 1,
               CHOOSE j \in kept : \A k \in kept : j >= k>>

Strip(text) ==
    Slice(text, StripBounds(text, 0, Len(text))[1], StripBounds(text, 0, Len(text))[2])

\* int(digits)
RECURSIVE IntOf(_)
IntOf(digits) ==
    IF digits = <<>> THEN 0
    ELSE 10 * IntOf(SubSeq(digits, 1, Len(digits) - 1))
         + (CHOOSE d \in DOMAIN DigitChars : DigitChars[d] = digits[Len(digits)]) - 1

\* RE_FLAG  /([^/]+)/
MatchFlag(r) ==
    IF At(r, 1) = "/" /\ Find(r, 2, "/") > 2 THEN Find(r, 2, "/") ELSE 0

\* RE_LAMBDA  \blambda\b
MatchLambda(r) ==
    IF BeginsWith(r, <<"l", "a", "m", "b", "d", "a">>) /\ ~IsWord(At(r, 7)) THEN 6 ELSE 0

\* RE_TEMPO_INLINE  \|\|(\d+(?:\.\d+)?)\|\| : <<m.end(), end of group 1>>
MatchTempo(r) ==
    LET d == 2 + Run(r, 3, IsDigit)
        f == IF At(r, d + 1) = "." /\ Run(r, d + 2, IsDigit) > 0
             THEN d + 1 + Run(r, d + 2, IsDigit) ELSE d
    IN  IF At(r, 1) = "|" /\ At(r, 2) = "|" /\ d > 2
           /\ At(r, f + 1) = "|" /\ At(r, f + 2) = "|"
        THEN <<f + 2, f>> ELSE <<0, 0>>

\* RE_SPECIAL_FN  _([a-zA-Z]\w*)\(([^)]*)\) : <<m.end(), end of group 1>>
MatchSpecialFn(r) ==
    LET n == 2 + Run(r, 3, IsWord)
    IN  IF At(r, 1) = "_" /\ IsAlpha(At(r, 2)) /\ At(r, n + 1) = "("
           /\ Find(r, n + 2, ")") > 0
        THEN <<Find(r, n + 2, ")"), n>> ELSE <<0, 0>>

\* RE_SPECIAL_FN_BARE  _([a-zA-Z]\w*)
MatchSpecialFnBare(r) ==
    IF At(r, 1) = "_" /\ IsAlpha(At(r, 2)) THEN 2 + Run(r, 3, IsWord) ELSE 0

\* RE_HOMO_MASTER, RE_HOMO_SLAVE  \(=\s*  \(:\s*
MatchHomo(r, mark) ==
    IF At(r, 1) = "(" /\ At(r, 2) = mark THEN 2 + Run(r, 3, IsSpace) ELSE 0

\* RE_VARIABLE  \|([^|]+)\|
MatchVariable(r) ==
    IF At(r, 1) = "|" /\ Find(r, 2, "|") > 2 THEN Find(r, 2, "|") ELSE 0

\* RE_WILDCARD  \?(\d+)
MatchWildcard(r) ==
    IF At(r, 1) = "?" /\ Run(r, 2, IsDigit) > 0 THEN 1 + Run(r, 2, IsDigit) ELSE 0

\* (?:\+\d+)+ from index i on: the index of its last character, i - 1 if it
\* matches nothing
RECURSIVE PlusGroups(_, _)
PlusGroups(r, i) ==
    IF At(r, i) = "+" /\ Run(r, i + 1, IsDigit) > 0
    THEN PlusGroups(r, i + 1 + Run(r, i + 1, IsDigit))
    ELSE i - 1

\* RE_TIME_SIG  \b(\d+(?:\+\d+)+/\d+)\b
MatchTimeSig(r) ==
    LET d == Run(r, 1, IsDigit)
        g == PlusGroups(r, d + 1)
        e == g + 1 + Run(r, g + 2, IsDigit)
    IN  IF d > 0 /\ g > d /\ At(r, g + 1) = "/" /\ e > g + 1 /\ ~IsWord(At(r, e + 1))
        THEN e ELSE 0

\* RE_ANNOTATION  \[([^\]]*)\]
MatchAnnotation(r) ==
    IF At(r, 1) = "[" THEN Find(r, 2, "]") ELSE 0

\* RE_HOMO_NAME  \b(mineur|majeur|trn)\b
HomoNames == <<<<"m", "i", "n", "e", "u", "r">>, <<"m", "a", "j", "e", "u", "r">>,
               <<"t", "r", "n">> >>

MatchHomoName(r) ==
    LET hits == {k \in DOMAIN HomoNames :
                    BeginsWith(r, HomoNames[k]) /\ ~IsWord(At(r, Len(HomoNames[k]) + 1))}
    IN  IF hits = {} THEN 0 ELSE Len(HomoNames[CHOOSE k \in hits : TRUE])


\* the stems of RE_NOTE_FR and RE_TIED_NOTE_FR (do|re|mi|fa|sol|la|si), of
\* RE_NOTE_INDIAN (sa|re|ga|ma|pa|dha|ni) and of the Anglo patterns ([A-G]):
\* no stem begins another, so the order of the alternatives decides nothing
\* (stem)(b|#)?(\d) at the start of r: [end, name, octave], end = 0 for no match
NoteAt(r, stems, accidental) ==
    LET hits == {s \in stems : BeginsWith(r, s)}
        stem == CHOOSE s \in hits : TRUE
        a == IF accidental /\ At(r, Len(stem) + 1) \in {"b", "#"}
                /\ IsDigit(At(r, Len(stem) + 2))
             THEN 1 ELSE 0
        e == Len(stem) + a + 1
    IN  IF hits # {} /\ IsDigit(At(r, e))
        THEN [end |-> e, name |-> Str(SubSeq(r, 1, e - 1)), octave |-> IntOf(<<r[e]>>),
              acc |-> a = 1]
        ELSE [end |-> 0, name |-> "", octave |-> 0, acc |-> FALSE]

\* RE_TIED_NOTE_FR, RE_TIED_NOTE_ANGLO  (&)?(stem)(b|#)?(\d)(&)? :
\* [end, name, octave, pre, suf]
TiedNoteAt(r, stems) ==
    LET pre == At(r, 1) = "&"
        note == NoteAt(IF pre THEN Tail(r) ELSE r, stems, TRUE)
        e == note.end + (IF pre THEN 1 ELSE 0)
        suf == At(r, e + 1) = "&"
    IN  IF note.end = 0 THEN [end |-> 0, name |-> "", octave |-> 0, pre |-> FALSE, suf |-> FALSE]
        ELSE [end |-> IF suf THEN e + 1 ELSE e, name |-> note.name, octave |-> note.octave,
              pre |-> pre, suf |-> suf]

\* RE_NOTE_FR, RE_NOTE_INDIAN, RE_NOTE_ANGLO  \b(stem)(b|#)?(\d)\b
WordNoteAt(r, stems, accidental) ==
    LET note == NoteAt(r, stems, accidental)
    IN  IF note.end > 0 /\ ~IsWord(At(r, note.end + 1)) THEN note
        ELSE [end |-> 0, name |-> "", octave |-> 0, acc |-> FALSE]

\* RE_NONTERMINAL  \b([A-Z][A-Za-z0-9_'\"]*)\b : the longest run of name
\* characters that ends at a word boundary
MatchNonTerminal(r) ==
    LET n == Run(r, 1, IsNameChar)
        ends == {e \in 1..n : IsWord(r[e]) # IsWord(At(r, e + 1))}
    IN  IF IsUpper(At(r, 1)) /\ ends # {}
        THEN CHOOSE e \in ends : \A k \in ends : e >= k ELSE 0

Reserved == {"ORD", "RND", "LIN", "SUB1", "SUB", "INIT"}

\* [a-z0-9_'\"]
IsTerminalChar(c) == IsNameChar(c) /\ ~IsUpper(c)

\* [a-z][a-z0-9_'\"]*
MatchTerminal(r) == IF IsLower(At(r, 1)) THEN Run(r, 1, IsTerminalChar) ELSE 0

\* the pieces of chars between the separators c, as 0-based bounds
RECURSIVE SplitOn(_, _, _)
SplitOn(chars, from, c) ==
    IF Find(chars, from + 1, c) = 0 THEN << <<from, Len(chars)>> >>
    ELSE << <<from, Find(chars, from + 1, c) - 1>> >> \o SplitOn(chars, Find(chars, from + 1, c), c)

\* _split_args
split_args(args_str) ==
    IF Strip(args_str) = <<>> THEN <<>>
    ELSE LET pieces == SplitOn(args_str, 0, ",")
         IN  [k \in DOMAIN pieces |-> Str(Strip(Slice(args_str, pieces[k][1], pieces[k][2])))]

\* the running depth of the delimiters open and close over text[a..b]
\* (1-based, inclusive): its value at b and its least value
RECURSIVE DepthOver(_, _, _, _, _)
DepthOver(text, a, b, open, close) ==
    IF a = b
    THEN LET d == IF text[a] = open THEN 1 ELSE IF text[a] = close THEN 0 - 1 ELSE 0
         IN  [net |-> d, min |-> d]
    ELSE LET mid == (a + b) \div 2
             l == DepthOver(text, a, mid, open, close)
             r == DepthOver(text, mid + 1, b, open, close)
         IN  [net |-> l.net + r.net,
              min |-> IF l.min <= l.net + r.min THEN l.min ELSE l.net + r.min]

\* the first index of text[a..b] at which the depth, base before a, is 0
RECURSIVE FirstClosed(_, _, _, _, _, _)
FirstClosed(text, a, b, base, open, close) ==
    IF a = b THEN a
    ELSE LET mid == (a + b) \div 2
             l == DepthOver(text, a, mid, open, close)
         IN  IF base + l.min <= 0 THEN FirstClosed(text, a, mid, base, open, close)
             ELSE FirstClosed(text, mid + 1, b, base + l.net, open, close)

\* _find_matching_brace, _find_matching_paren, for the delimiter at the start
\* of r: the 1-based index of its match, 0 for None
find_matching(r, open, close) ==
    IF Len(r) < 2 \/ DepthOver(r, 1, Len(r), open, close).min > 0 THEN 0
    ELSE FirstClosed(r, 1, Len(r), 0, open, close)


\* Rest(determined=False)
RestUnder == Elem("Rest", "", 0, FALSE, <<>>, <<>>)

\* the element is None
NoElem == Elem("None", "", 0, FALSE, <<>>, <<>>)

\* what _try_parse_element(text, pos) finds at the start of r = text[pos:],
\* prev the character before pos ("" at pos = 0): the characters consumed
\* and the element, or for a bracketed group (into # "") the 1-based bounds
\* in r of the text it tokenizes next
Found(consumed, elem) == [consumed |-> consumed, elem |-> elem, into |-> "", from |-> 0, to |-> 0]

Group(consumed, into, from, to) ==
    [consumed |-> consumed, elem |-> NoElem, into |-> into, from |-> from, to |-> to]

try_parse_element(r, prev) ==
    IF MatchFlag(r) > 0 THEN Found(MatchFlag(r), NoElem)
    ELSE IF MatchLambda(r) > 0 THEN Found(MatchLambda(r), Lambda)
    ELSE IF MatchTempo(r)[1] > 0
    THEN Found(MatchTempo(r)[1],
               SpecialFn("mm_inline", <<Str(SubSeq(r, 3, MatchTempo(r)[2]))>>))
    ELSE IF MatchSpecialFn(r)[1] > 0
    THEN LET m == MatchSpecialFn(r)
         IN  Found(m[1], SpecialFn(Str(SubSeq(r, 2, m[2])),
                                   split_args(SubSeq(r, m[2] + 2, m[1] - 1))))
    ELSE IF MatchSpecialFnBare(r) > 0 /\ At(r, MatchSpecialFnBare(r) + 1) # "("
            /\ ~IsAlnum(At(r, MatchSpecialFnBare(r) + 1))
    THEN Found(MatchSpecialFnBare(r), SpecialFn(Str(SubSeq(r, 2, MatchSpecialFnBare(r))), <<>>))
    ELSE IF MatchHomo(r, "=") > 0 /\ find_matching(r, "(", ")") > 0
    THEN Group(find_matching(r, "(", ")"), "master", MatchHomo(r, "=") + 1,
               find_matching(r, "(", ")") - 1)
    ELSE IF MatchHomo(r, ":") > 0 /\ find_matching(r, "(", ")") > 0
    THEN Group(find_matching(r, "(", ")"), "slave", MatchHomo(r, ":") + 1,
               find_matching(r, "(", ")") - 1)
    ELSE IF At(r, 1) = "{" /\ find_matching(r, "{", "}") > 0
    THEN Group(find_matching(r, "{", "}"), "poly", 2, find_matching(r, "{", "}") - 1)
    ELSE IF MatchVariable(r) > 0
    THEN Found(MatchVariable(r), Variable(Str(SubSeq(r, 2, MatchVariable(r) - 1))))
    ELSE IF MatchWildcard(r) > 0
    THEN Found(MatchWildcard(r), Wildcard(IntOf(SubSeq(r, 2, MatchWildcard(r)))))
    ELSE IF MatchTimeSig(r) > 0
    THEN Found(MatchTimeSig(r), TimeSig(Str(SubSeq(r, 1, MatchTimeSig(r)))))
    ELSE IF MatchAnnotation(r) > 0
    THEN Found(MatchAnnotation(r), Annotation(Str(SubSeq(r, 2, MatchAnnotation(r) - 1))))
    ELSE IF MatchHomoName(r) > 0 /\ ~IsAlnum(At(r, MatchHomoName(r) + 1))
    THEN Found(MatchHomoName(r),
               HomoApply("ref", <<NonTerminal(Str(SubSeq(r, 1, MatchHomoName(r))))>>))
    ELSE IF TiedNoteAt(r, FrenchStems).end > 0
            /\ (TiedNoteAt(r, FrenchStems).pre \/ TiedNoteAt(r, FrenchStems).suf)
    THEN LET m == TiedNoteAt(r, FrenchStems) IN Found(m.end, Tie(m.name, m.octave, m.suf))
    ELSE IF WordNoteAt(r, FrenchStems, TRUE).end > 0
    THEN LET m == WordNoteAt(r, FrenchStems, TRUE) IN Found(m.end, Note(m.name, m.octave))
    ELSE IF WordNoteAt(r, IndianSpelled, FALSE).end > 0
    THEN LET m == WordNoteAt(r, IndianSpelled, FALSE) IN Found(m.end, Note(m.name, m.octave))
    ELSE IF At(r, 1) = "-" /\ prev \in {"", " ", "\t", "{", ","}
            /\ At(r, 2) \in {"", " ", "\t", "}", "\n", ","}
    THEN Found(1, Rest)
    ELSE IF At(r, 1) = "_" /\ ~IsAlpha(At(r, 2))
    THEN Found(1, RestUnder)
    ELSE IF TiedNoteAt(r, AngloLetters).end > 0
            /\ (TiedNoteAt(r, AngloLetters).pre \/ TiedNoteAt(r, AngloLetters).suf)
    THEN LET m == TiedNoteAt(r, AngloLetters) IN Found(m.end, Tie(m.name, m.octave, m.suf))
    ELSE IF MatchNonTerminal(r) > 0 /\ Str(SubSeq(r, 1, MatchNonTerminal(r))) \notin Reserved
    THEN Found(MatchNonTerminal(r), NonTerminal(Str(SubSeq(r, 1, MatchNonTerminal(r)))))
    ELSE IF WordNoteAt(r, AngloLetters, TRUE).end > 0 /\ WordNoteAt(r, AngloLetters, TRUE).acc
    THEN LET m == WordNoteAt(r, AngloLetters, TRUE) IN Found(m.end, Note(m.name, m.octave))
    ELSE IF MatchTerminal(r) > 0
            /\ Str(SubSeq(r, 1, MatchTerminal(r))) \notin {"lambda", "mineur", "majeur", "trn"}
    THEN Found(MatchTerminal(r), NonTerminal(Str(SubSeq(r, 1, MatchTerminal(r)))))
    ELSE Found(1, NoElem)


(***************************************************************************)
(* _parse_symbol_sequence as the interpreter runs it.  lex.text is the     *)
(* text of the outermost call; lex.stack holds one frame for each call in  *)
(* progress, outermost first:                                              *)
(*   "seq"   _parse_symbol_sequence on text[lo:hi] (already stripped), at  *)
(*           pos, with the elements found so far;                          *)
(*   "try"   _try_parse_element waiting for the bracketed group it found   *)
(*           (what, consumed), the group's text being text[lo:hi];         *)
(*   "poly"  _parse_polymetric with the parts still to tokenize and the    *)
(*           voices found.                                                 *)
(* lex.base is the number of frames below the outermost call.              *)
(***************************************************************************)
Frame(kind, lo, hi) ==
    [kind |-> kind, lo |-> lo, hi |-> hi, pos |-> 0, elements |-> <<>>, what |-> "",
     consumed |-> 0, parts |-> <<>>, ratio |-> None, voices |-> <<>>]

\* the frame of _parse_symbol_sequence(text[lo:hi]): text = text.strip()
SeqFrame(text, lo, hi) ==
    Frame("seq", StripBounds(text, lo, hi)[1], StripBounds(text, lo, hi)[2])

\* the most nested calls the interpreter allows (sys.getrecursionlimit())
RecursionLimit == 1000

Top == lex.stack[Len(lex.stack)]

\* the frames in use
Depth == lex.base + Len(lex.stack)

\* the stack with its top frame replaced
SetTop(frame) == [lex.stack EXCEPT ![Len(lex.stack)] = frame]

\* the stack without its n top frames
Drop(n) == SubSeq(lex.stack, 1, Len(lex.stack) - n)

\* the seq frame after an element was found (None: one character skipped)
Advance(frame, consumed, elem) ==
    IF elem = NoElem THEN [frame EXCEPT !.pos = @ + 1]
    ELSE [frame EXCEPT !.pos = @ + consumed, !.elements = Append(@, elem)]

\* the scan loop takes what _try_parse_element found: an element or a
\* skipped character, or the call that tokenizes a bracketed group
TakeFound(found) ==
    IF found.into = ""
    THEN lex' = [lex EXCEPT !.stack = SetTop(Advance(Top, found.consumed, found.elem))]
    ELSE lex' = [lex EXCEPT !.stack = Append(lex.stack,
                    [Frame("try", Top.lo + Top.pos + found.from - 1,
                           Top.lo + Top.pos + found.to)
                     EXCEPT !.what = found.into, !.consumed = found.consumed])]

\* one iteration of the scan loop
LexStep ==
    /\ lex.phase = "scan"
    /\ Top.kind = "seq"
    /\ Top.pos < Top.hi - Top.lo
    /\ IF lex.text[Top.lo + Top.pos + 1] \in {" ", "\t"}
       THEN lex' = [lex EXCEPT !.stack = SetTop([Top EXCEPT !.pos = @ + 1])]
       ELSE /\ Depth < RecursionLimit
            /\ TakeFound(try_parse_element(Slice(lex.text, Top.lo + Top.pos, Top.hi),
                                           IF Top.pos = 0 THEN ""
                                           ELSE lex.text[Top.lo + Top.pos]))
    /\ UNCHANGED <<bp, start_symbol, seed, max_dur, alphabet_files, self, pc, blk, grp,
                   parts, runs, prout, frout, call>>

\* the k-th least element of a set of numbers
Kth(S, k) == CHOOSE j \in S : Cardinality({i \in S : i < j}) = k - 1

\* _split_poly_commas(text[lo:hi]): the parts as 0-based bounds
split_poly_commas(text, lo, hi) ==
    LET commas == {j \in (lo + 1)..hi :
                      /\ text[j] = ","
                      /\ (j = lo + 1 \/ DepthOver(text, lo + 1, j - 1, "{", "}").net = 0)}
        n == Cardinality(commas)
        last == IF n = 0 THEN lo ELSE Kth(commas, n)
        cut == [k \in 1..n |-> <<IF k = 1 THEN lo ELSE Kth(commas, k - 1), Kth(commas, k) - 1>>]
    IN  IF last < hi THEN Append(cut, <<last, hi>>) ELSE cut

\* ^\d+$ on a stripped part
IsNumber(chars) == chars # <<>> /\ \A k \in DOMAIN chars : IsDigit(chars[k])

\* _try_parse_element calls _parse_symbol_sequence on the text of a
\* homomorphism, or _parse_polymetric on the text between the braces
LexCall ==
    /\ lex.phase = "scan"
    /\ Top.kind = "try"
    /\ Depth < RecursionLimit
    /\ IF Top.what = "poly"
       THEN LET all == split_poly_commas(lex.text, Top.lo, Top.hi)
                first == IF all = <<>> THEN <<>>
                         ELSE Strip(Slice(lex.text, all[1][1], all[1][2]))
            IN  lex' = [lex EXCEPT !.stack = Append(lex.stack,
                           [Frame("poly", Top.lo, Top.hi)
                            EXCEPT !.ratio = IF IsNumber(first) THEN IntOf(first) ELSE None,
                                   !.parts = IF IsNumber(first) THEN Tail(all) ELSE all])]
       ELSE lex' = [lex EXCEPT !.stack = Append(lex.stack,
                                                SeqFrame(lex.text, Top.lo, Top.hi))]
    /\ UNCHANGED <<bp, start_symbol, seed, max_dur, alphabet_files, self, pc, blk, grp,
                   parts, runs, prout, frout, call>>

\* _parse_polymetric calls _parse_symbol_sequence on its next part
LexVoice ==
    /\ lex.phase = "scan"
    /\ Top.kind = "poly"
    /\ Top.parts # <<>>
    /\ Depth < RecursionLimit
    /\ lex' = [lex EXCEPT !.stack =
                  Append(SetTop([Top EXCEPT !.parts = Tail(@)]),
                         SeqFrame(lex.text, Top.parts[1][1], Top.parts[1][2]))]
    /\ UNCHANGED <<bp, start_symbol, seed, max_dur, alphabet_files, self, pc, blk, grp,
                   parts, runs, prout, frout, call>>

\* an inner _parse_symbol_sequence returns its elements: to _parse_polymetric,
\* which keeps them as a voice unless they are empty, or to _try_parse_element,
\* which returns the HomoApply to the scan loop that called it
LexReturn ==
    /\ lex.phase = "scan"
    /\ Top.kind = "seq"
    /\ Top.pos >= Top.hi - Top.lo
    /\ Len(lex.stack) > 1
    /\ LET caller == lex.stack[Len(lex.stack) - 1]
       IN  IF caller.kind = "poly"
           THEN lex' = [lex EXCEPT !.stack = Append(Drop(2),
                           [caller EXCEPT !.voices = IF Top.elements = <<>> THEN @
                                                     ELSE Append(@, Top.elements)])]
           ELSE lex' = [lex EXCEPT !.stack = Append(Drop(3),
                           Advance(lex.stack[Len(lex.stack) - 2], caller.consumed,
                                   HomoApply(caller.what, Top.elements)))]
    /\ UNCHANGED <<bp, start_symbol, seed, max_dur, alphabet_files, self, pc, blk, grp,
                   parts, runs, prout, frout, call>>

\* _parse_polymetric returns, and _try_parse_element returns the Polymetric
LexPoly ==
    /\ lex.phase = "scan"
    /\ Top.kind = "poly"
    /\ Top.parts = <<>>
    /\ lex' = [lex EXCEPT !.stack = Append(Drop(3),
                  Advance(lex.stack[Len(lex.stack) - 2],
                          lex.stack[Len(lex.stack) - 1].consumed,
                          Polymetric(Top.ratio, Top.voices)))]
    /\ UNCHANGED <<bp, start_symbol, seed, max_dur, alphabet_files, self, pc, blk, grp,
                   parts, runs, prout, frout, call>>

\* a call finds no frame left: RecursionError leaves the parser
LexRaise ==
    /\ lex.phase = "scan"
    /\ Depth >= RecursionLimit
    /\ IF Top.kind = "seq"
       THEN /\ Top.pos < Top.hi - Top.lo
            /\ lex.text[Top.lo + Top.pos + 1] \notin {" ", "\t"}
       ELSE IF Top.kind = "poly" THEN Top.parts # <<>> ELSE TRUE
    /\ lex' = [lex EXCEPT !.phase = "raised"]
    /\ UNCHANGED <<bp, start_symbol, seed, max_dur, alphabet_files, self, pc, blk, grp,
                   parts, runs, prout, frout, call>>


(***************************************************************************)
(* _parse_symbol_sequence(text) called on its own: the text is drawn from  *)
(* every string of up to MaxBody characters of BodyChars, from a list of   *)
(* rule bodies, and from braces nested DeepLevels deep.                    *)
(***************************************************************************)
MaxBody == 3

BodyChars == {"F", "#", "3", "b", "{", "}", ",", "-", " ", "&", "f", "a"}

ShortBodies(n) == UNION {[1..k -> BodyChars] : k \in 0..n}

SampleBodies ==
    {<<"F", "#", "3">>,
     <<"B", "b", "5">>,
     <<"C", "4">>,
     <<"f", "a", "4">>,
     <<"s", "i", "b", "4", "&">>,
     <<"&", "C", "4">>,
     <<"C", "#", "4", "&">>,
     <<"{", "2", ",", " ", "f", "a", "4", " ", "C", "4", ",", " ", "-", "}">>,
     <<"(", "=", " ", "A", " ", "B", ")">>,
     <<"(", ":", " ", "A", ")">>,
     <<"|", "x", "|">>,
     <<"?", "1">>,
     <<"4", "+", "4", "/", "4">>,
     <<"[", "v", "]">>,
     <<"l", "a", "m", "b", "d", "a">>,
     <<"m", "i", "n", "e", "u", "r", " ", "A">>,
     <<"_", "v", "e", "l", "(", "3", ",", " ", "4", ")">>,
     <<"_", "r", "e", "t", "r", "o">>,
     <<"_", " ", "-">>,
     <<"|", "|", "6", "0", "|", "|">>,
     <<"/", "a", "/", " ", "B">>,
     <<"B", "\"", "8">>,
     <<"e", "k">>,
     <<"s", "a", "4">>,
     <<"O", "R", "D", " ", "A">>,
     <<"{", "f", "a", "4", ",", " ", "{", "A", ",", " ", "B", "}", "}">>,
     <<"(", "=", " ", "{", "A", "}", ")", " ", "(", ":", " ", "{", "A", "}", ")">>,
     <<"(", "=", "A">>,
     <<"{", "A">>,
     <<"d", "o", "#", "5", " ", "r", "e", "b", "3">>,
     <<"A", "4", " ", "B">>,
     <<"S", " ", "/", "I", "d", "=", "2", "/", " ", "B">>}

\* the depth of the nesting that is drawn
DeepLevels == 340

Nested(n) ==
    [k \in 1..(2 * n + 3) |->
        IF k <= n THEN "{"
        ELSE IF k = n + 1 THEN "f" ELSE IF k = n + 2 THEN "a" ELSE IF k = n + 3 THEN "4"
        ELSE "}"]

\* the parser about to run _parse_symbol_sequence(text) under base frames
Tokenizing(text, side, base) ==
    [LexIdle EXCEPT !.phase = "scan", !.text = text, !.side = side, !.base = base,
                    !.stack = <<SeqFrame(text, 0, Len(text))>>]

InitLex ==
    \E text \in ShortBodies(MaxBody) \cup SampleBodies \cup {Nested(DeepLevels)} :
        InitWith(Tokenizing(text, "body", 1), CallIdle)

\* the outermost _parse_symbol_sequence returns its elements
LexDone ==
    /\ lex.phase = "scan"
    /\ lex.side = "body"
    /\ Len(lex.stack) = 1
    /\ Top.pos >= Top.hi - Top.lo
    /\ lex' = [lex EXCEPT !.phase = "done", !.out = Top.elements, !.stack = <<>>]
    /\ UNCHANGED <<bp, start_symbol, seed, max_dur, alphabet_files, self, pc, blk, grp,
                   parts, runs, prout, frout, call>>

NextLex == LexStep \/ LexCall \/ LexVoice \/ LexReturn \/ LexPoly \/ LexRaise \/ LexDone

SpecLex == InitLex /\ [][NextLex]_vars


\* the seq frame that called frame j of the stack, through _try_parse_element
\* and _parse_polymetric
CallerOf(stack, j) ==
    CHOOSE k \in 1..(j - 1) :
        /\ stack[k].kind = "seq"
        /\ \A m \in (k + 1)..(j - 1) : stack[m].kind # "seq"

\* a scan loop that is still running after the step has moved forward if the
\* step was an iteration of it
Progress ==
    \A j \in DOMAIN lex.stack \cap DOMAIN lex'.stack :
        /\ lex.stack[j].kind = "seq"
        /\ \A k \in 1..j : /\ lex'.stack[k].kind = lex.stack[k].kind
                           /\ lex'.stack[k].lo = lex.stack[k].lo
                           /\ lex'.stack[k].hi = lex.stack[k].hi
        /\ lex'.stack[j] # lex.stack[j]
        => lex'.stack[j].pos > lex.stack[j].pos

\* C12: tokenizing a rule body never raises; every iteration of a scan loop
\* moves its position forward (LexStep on a character or an element that is
\* no group, LexReturn and LexPoly on the return of a group); every nested
\* tokenization runs on text strictly shorter than the text of the scan loop
\* that started it
C12_Tokenizer ==
    /\ [](lex.phase # "raised")
    /\ [][Progress]_vars
    /\ [][LexStep => \/ Len(lex'.stack) > Len(lex.stack)
                     \/ lex'.stack[Len(lex.stack)].pos > Top.pos]_vars
    /\ [](\A j \in DOMAIN lex.stack :
             (lex.stack[j].kind = "seq" /\ j > 1) =>
                 lex.stack[j].hi - lex.stack[j].lo
                     < lex.stack[CallerOf(lex.stack, j)].hi
                       - lex.stack[CallerOf(lex.stack, j)].lo)

\* what C12 says of progress and of the nested texts, without the raise
ScanProgress ==
    /\ [][Progress]_vars
    /\ [][LexStep => \/ Len(lex'.stack) > Len(lex.stack)
                     \/ lex'.stack[Len(lex.stack)].pos > Top.pos]_vars
    /\ [](\A j \in DOMAIN lex.stack :
             (lex.stack[j].kind = "seq" /\ j > 1) =>
                 lex.stack[j].hi - lex.stack[j].lo
                     < lex.stack[CallerOf(lex.stack, j)].hi
                       - lex.stack[CallerOf(lex.stack, j)].lo)

\* C13: text that is exactly an Anglo letter, an accidental and an octave
\* digit is tokenized as one Note with the accidental name and the octave;
\* an Anglo letter and a digit are tokenized as one NonTerminal
C13_AngloNotes ==
    (lex.phase = "done" /\ lex.side = "body") =>
        /\ (/\ Len(lex.text) = 3
            /\ <<lex.text[1]>> \in AngloLetters
            /\ lex.text[2] \in {"#", "b"}
            /\ IsDigit(lex.text[3]))
           => lex.out = <<Note(Str(SubSeq(lex.text, 1, 2)), IntOf(<<lex.text[3]>>))>>
        /\ (/\ Len(lex.text) = 2
            /\ <<lex.text[1]>> \in AngloLetters
            /\ IsDigit(lex.text[2]))
           => lex.out = <<NonTerminal(Str(lex.text))>>


(***************************************************************************)
(* grammar/parser.py: parse_text and the rule line.                        *)
(***************************************************************************)
\* a header of the file: Comment(text), FileRef(prefix, name),
\* InitDirective(text)
Header(t, prefix, name, text) == [t |-> t, prefix |-> prefix, name |-> name, text |-> text]

\* RE_RULE  ^\s*gram#(\d+)\[(\d+)\] with IGNORECASE, on a stripped line:
\* <<m.end(), end of group 1>>
MatchRule(r) ==
    LET g == 5 + Run(r, 6, IsDigit)
        n == g + 1 + Run(r, g + 2, IsDigit)
    IN  IF /\ Len(r) >= 5
           /\ str_lower(SubSeq(r, 1, 5)) = <<"g", "r", "a", "m", "#">>
           /\ g > 5 /\ At(r, g + 1) = "[" /\ n > g + 1 /\ At(r, n + 1) = "]"
        THEN <<n + 1, g>> ELSE <<0, 0>>

\* RE_BARE_RULE  ^\s*([A-Z][A-Za-z0-9_'\"]*)\s+-->
MatchBareRule(r) ==
    LET n == Run(r, 1, IsNameChar)
        w == Run(r, n + 1, IsSpace)
    IN  IF IsUpper(At(r, 1)) /\ w > 0
           /\ BeginsWith(Slice(r, n + w, Len(r)), <<"-", "-", ">">>)
        THEN n + w + 3 ELSE 0

\* RE_WEIGHT  <(\d+)(?:-(\d+))?> : [end, value, decrement]
MatchWeight(r) ==
    LET v == 1 + Run(r, 2, IsDigit)
        d == IF At(r, v + 1) = "-" /\ Run(r, v + 2, IsDigit) > 0
             THEN v + 1 + Run(r, v + 2, IsDigit) ELSE v
    IN  IF At(r, 1) = "<" /\ v > 1 /\ At(r, d + 1) = ">"
        THEN [end |-> d + 1,
              weight |-> Weight(IntOf(SubSeq(r, 2, v)),
                                IF d > v THEN IntOf(SubSeq(r, v + 2, d)) ELSE None)]
        ELSE [end |-> 0, weight |-> NoWeight]

\* RE_ARROW.search: the 1-based index of the first arrow, 0 if there is none
ArrowAt(r) ==
    LET hits == {j \in 1..(Len(r) - 2) : SubSeq(r, j, j + 2) = <<"-", "-", ">">>}
    IN  IF hits = {} THEN 0 ELSE CHOOSE j \in hits : \A k \in hits : j <= k

\* _parse_flag_expr: the first of the operators that occurs in the
\* expression splits it; a flag with no operator has no value
RECURSIVE FlagSplit(_, _)
FlagSplit(expr, ops) ==
    IF ops = <<>> THEN Flag(Str(Strip(expr)), "", "")
    ELSE IF Find(expr, 1, Head(ops)) > 0
    THEN Flag(Str(Strip(SubSeq(expr, 1, Find(expr, 1, Head(ops)) - 1))), Head(ops),
              Str(Strip(Slice(expr, Find(expr, 1, Head(ops)), Len(expr)))))
    ELSE FlagSplit(expr, Tail(ops))

parse_flag_expr(expr) == FlagSplit(expr, <<"=", "+", "-", ">", "<">>)

\* the loop of _parse_rule_line over the flags before the arrow: the flags
\* and the text left
RECURSIVE PrefixFlags(_, _)
PrefixFlags(rest, flags) ==
    IF MatchFlag(rest) > 0
    THEN PrefixFlags(Strip(Slice(rest, MatchFlag(rest), Len(rest))),
                     Append(flags, parse_flag_expr(Strip(SubSeq(rest, 2, MatchFlag(rest) - 1)))))
    ELSE [flags |-> flags, rest |-> rest]

\* RE_FLAG.finditer(text) from the 1-based index from on: <<start, end>>
RECURSIVE FlagMatches(_, _)
FlagMatches(text, from) ==
    LET p == Find(text, from, "/")
        q == IF p = 0 THEN 0 ELSE Find(text, p + 1, "/")
    IN  IF q = 0 THEN <<>>
        ELSE IF q = p + 1 THEN FlagMatches(text, q)
        ELSE << <<p, q>> >> \o FlagMatches(text, q + 1)

\* the text without the characters of the matches
Without(text, matches) ==
    LET keep == {j \in DOMAIN text :
                    \A k \in DOMAIN matches : j < matches[k][1] \/ j > matches[k][2]}
    IN  [k \in 1..Cardinality(keep) |-> text[Kth(keep, k)]]

\* _extract_flags_from_text
extract_flags_from_text(text) ==
    LET ms == FlagMatches(text, 1)
    IN  [flags |-> [k \in DOMAIN ms |->
                       parse_flag_expr(Strip(SubSeq(text, ms[k][1] + 1, ms[k][2] - 1)))],
         clean |-> Strip(Without(text, ms))]

\* str.rstrip()
RStrip(text) == Slice(text, 0, StripBounds(text, 0, Len(text))[2])

\* RE_ANNOTATION.finditer(text) from the 1-based index from on
RECURSIVE AnnotationMatches(_, _)
AnnotationMatches(text, from) ==
    LET p == Find(text, from, "[")
        q == IF p = 0 THEN 0 ELSE Find(text, p + 1, "]")
    IN  IF q = 0 THEN <<>> ELSE << <<p, q>> >> \o AnnotationMatches(text, q + 1)

\* the loop that removes the trailing annotations, last match first:
\* [text, comments]
RECURSIVE TrailingLoop(_, _, _)
TrailingLoop(text, matches, comments) ==
    IF matches = <<>> THEN [text |-> text, comments |-> comments]
    ELSE LET m == matches[Len(matches)]
         IN  IF m[2] >= Len(RStrip(text))
             THEN TrailingLoop(RStrip(SubSeq(text, 1, m[1] - 1) \o Slice(text, m[2], Len(text))),
                               SubSeq(matches, 1, Len(matches) - 1),
                               <<Str(SubSeq(text, m[1] + 1, m[2] - 1))>> \o comments)
             ELSE [text |-> text, comments |-> comments]

\* " ".join(trailing_comments), "" for None
JoinComments(comments) ==
    IF comments = <<>> THEN ""
    ELSE Str(Join([k \in DOMAIN comments |-> <<comments[k]>>], <<" ">>))


\* str.lstrip()
LStrip(text) == Slice(text, StripBounds(text, 0, Len(text))[1], Len(text))

\* RE_STRIATED  _striated with IGNORECASE
MatchStriated(r) ==
    IF Len(r) >= 9 /\ str_lower(SubSeq(r, 1, 9)) = <<"_", "s", "t", "r", "i", "a", "t", "e", "d">>
    THEN 9 ELSE 0

\* _try_parse_preamble: the loop over what remains of the line
RECURSIVE PreambleLoop(_, _)
PreambleLoop(remaining, items) ==
    LET r == LStrip(remaining)
        m == MatchSpecialFn(r)
    IN  IF r = <<>> THEN items
        ELSE IF m[1] > 0
        THEN PreambleLoop(Slice(r, m[1], Len(r)),
                          Append(items, SpecialFn(Str(SubSeq(r, 2, m[2])),
                                                  split_args(SubSeq(r, m[2] + 2, m[1] - 1)))))
        ELSE IF MatchStriated(r) > 0
        THEN PreambleLoop(Slice(r, 9, Len(r)), Append(items, SpecialFn("striated", <<>>)))
        ELSE items

try_parse_preamble(line) == PreambleLoop(Strip(line), <<>>)

\* RE_FILE_REF  ^-(\w+)\.(.+)$ : the end of group 1, 0 for no match
MatchFileRef(r) ==
    LET w == 1 + Run(r, 2, IsWord)
    IN  IF At(r, 1) = "-" /\ w > 1 /\ At(r, w + 1) = "." /\ Len(r) > w + 1 THEN w ELSE 0

\* RE_SEPARATOR  ^---[-]+\s*$
MatchSeparator(r) == Len(r) >= 4 /\ Run(r, 1, LAMBDA c : c = "-") = Len(RStrip(r))

ModeNames == <<<<"O", "R", "D">>, <<"R", "N", "D">>, <<"L", "I", "N">>,
               <<"S", "U", "B", "1">>, <<"S", "U", "B">> >>

\* (?:\s*\[([^\]]*)\])? from the 0-based offset p on: [next, has, group]
Bracket(r, p) ==
    LET o == p + Run(r, p + 1, IsSpace) + 1
    IN  IF At(r, o) = "[" /\ Find(r, o + 1, "]") > 0
        THEN [next |-> Find(r, o + 1, "]"), has |-> TRUE,
              group |-> SubSeq(r, o + 1, Find(r, o + 1, "]") - 1)]
        ELSE [next |-> p, has |-> FALSE, group |-> <<>>]

\* RE_MODE on a stripped line: [ok, mode, first, second], the two optional
\* bracketed groups
MatchMode(r) ==
    LET fits(k) == /\ BeginsWith(r, ModeNames[k])
                   /\ LET b1 == Bracket(r, Len(ModeNames[k]))
                          b2 == Bracket(r, b1.next)
                      IN  b2.next + Run(r, b2.next + 1, IsSpace) = Len(r)
        hits == {k \in DOMAIN ModeNames : fits(k)}
        k == CHOOSE j \in hits : \A m \in hits : j <= m
    IN  IF hits = {} THEN [ok |-> FALSE, mode |-> "", first |-> Bracket(r, 0), second |-> Bracket(r, 0)]
        ELSE [ok |-> TRUE, mode |-> Str(ModeNames[k]),
              first |-> Bracket(r, Len(ModeNames[k])),
              second |-> Bracket(r, Bracket(r, Len(ModeNames[k])).next)]

\* the GrammarBlock of a mode line (parse_text, lines 145-152); a label that
\* is None is ""
ModeBlock(m) ==
    LET digits == IsNumber(m.first.group)
    IN  GrammarBlock(m.mode,
                     IF m.first.has /\ digits THEN IntOf(m.first.group) ELSE None,
                     IF m.second.has THEN Str(m.second.group)
                     ELSE IF m.first.has /\ m.first.group # <<>> /\ ~digits
                     THEN Str(m.first.group) ELSE "",
                     <<>>, <<>>)

\* the branch of the classifier of parse_text a stripped line takes
Classify(stripped, has_block, in_headers) ==
    IF stripped = <<>> THEN "blank"
    ELSE IF BeginsWith(stripped, <<"/", "/">>) THEN "comment"
    ELSE IF MatchFileRef(stripped) > 0 /\ in_headers THEN "file_ref"
    ELSE IF BeginsWith(stripped, <<"I", "N", "I", "T", ":">>) /\ Len(stripped) > 5 THEN "init"
    ELSE IF MatchSeparator(stripped) THEN "separator"
    ELSE IF MatchMode(stripped).ok THEN "mode"
    ELSE IF /\ has_block
            /\ MatchRule(stripped)[1] = 0
            /\ MatchBareRule(stripped) = 0
            /\ try_parse_preamble(stripped) # <<>> THEN "preamble"
    ELSE IF MatchRule(stripped)[1] > 0 THEN "rule"
    ELSE IF MatchBareRule(stripped) > 0 THEN "bare"
    ELSE "unknown"

\* the common body of _parse_rule_line and _parse_bare_rule_line, from the
\* weight on: the rule, with no elements yet when there is an arrow, and the
\* texts of the two sides.  Each stage is given what the stage before it
\* computed.
\* lines 293-306: the flags of the right-hand side join those of the prefix
RuleSides(gram_num, rule_num, weight, flags, lhs_text, cut, ex) ==
    [arrow |-> TRUE, lhs_text |-> lhs_text, rhs_text |-> ex.clean,
     rule |-> Rule(gram_num, rule_num, weight, flags \o ex.flags, <<>>, <<>>,
                   JoinComments(cut.comments))]

\* lines 279-291: the trailing annotations are taken off the right-hand side
RuleComment(gram_num, rule_num, weight, flags, lhs_text, cut) ==
    RuleSides(gram_num, rule_num, weight, flags, lhs_text, cut,
              extract_flags_from_text(cut.text))

RemoveTrailing(rhs_text) == TrailingLoop(rhs_text, AnnotationMatches(rhs_text, 1), <<>>)

\* lines 266-277: the split on the arrow, or the rule of a line without one
RuleArrow(gram_num, rule_num, weight, flags, rest, arrow) ==
    IF arrow = 0
    THEN [arrow |-> FALSE, lhs_text |-> <<>>, rhs_text |-> <<>>,
          rule |-> Rule(gram_num, rule_num, weight, flags, <<NonTerminal("?")>>, <<>>, "")]
    ELSE RuleComment(gram_num, rule_num, weight, flags, Strip(SubSeq(rest, 1, arrow - 1)),
                     RemoveTrailing(Strip(Slice(rest, arrow + 2, Len(rest)))))

\* lines 255-264: the flags before the arrow
RuleFlags(gram_num, rule_num, weight, pre) ==
    RuleArrow(gram_num, rule_num, weight, pre.flags, pre.rest, ArrowAt(pre.rest))

\* lines 246-253: the weight
RuleWeight(gram_num, rule_num, rest, w) ==
    RuleFlags(gram_num, rule_num, w.weight,
              PrefixFlags(IF w.end > 0 THEN Strip(Slice(rest, w.end, Len(rest))) ELSE rest,
                          <<>>))

parse_rule_rest(rest, gram_num, rule_num) ==
    RuleWeight(gram_num, rule_num, rest, MatchWeight(rest))

\* a _parse_rule_line that returns no rule for a line without an arrow
parse_rule_line_strict(line, gram_num, rule_num) ==
    LET parsed == parse_rule_rest(Strip(Slice(line, MatchRule(line)[1], Len(line))),
                                  gram_num, rule_num)
    IN  IF parsed.arrow THEN parsed ELSE [parsed EXCEPT !.rule = NoRule]

\* _parse_rule_line
parse_rule_line(line, gram_num, rule_num) ==
    parse_rule_rest(Strip(Slice(line, MatchRule(line)[1], Len(line))), gram_num, rule_num)

\* _parse_bare_rule_line
parse_bare_rule_line(line, gram_num, rule_num) ==
    parse_rule_rest(Strip(line), gram_num, rule_num)


\* list.append on the rules, and extend on the preamble, of the current
\* block, the last one of grammars
AppendRule(grammars, rule) ==
    [grammars EXCEPT ![Len(grammars)].rules = Append(@, rule)]

\* the blocks after a rule line made sure there is a current block
WithBlock(grammars) ==
    IF grammars = <<>> THEN <<GrammarBlock("ORD", None, "", <<>>, <<>>)>> ELSE grammars

\* the parser starts on the two sides of a rule with an arrow
StartSides(l, grammars, parsed) ==
    [l EXCEPT !.grammars = grammars, !.in_headers = FALSE, !.phase = "scan",
              !.side = "lhs", !.rule = parsed.rule, !.rhs_text = parsed.rhs_text,
              !.text = parsed.lhs_text,
              !.stack = <<SeqFrame(parsed.lhs_text, 0, Len(parsed.lhs_text))>>]

\* parse_text, lines 177-180 and 192-195: the rule of the line is appended to
\* the current block, once its two sides are tokenized if it has an arrow
RuleLine(blocks, parsed) ==
    lex' = IF parsed.arrow THEN StartSides(lex, blocks, parsed)
           ELSE [lex EXCEPT !.i = @ + 1, !.in_headers = FALSE,
                            !.grammars = AppendRule(blocks, parsed.rule)]

\* _parse_rule_line(stripped, int(m.group(1)), int(m.group(2)))
PrefixedRule(stripped, m) ==
    parse_rule_line(stripped, IntOf(SubSeq(stripped, 6, m[2])),
                    IntOf(SubSeq(stripped, m[2] + 2, m[1] - 1)))

\* _parse_bare_rule_line(stripped, current_block.index or 1,
\* len(current_block.rules) + 1)
BareRule(stripped, current) ==
    parse_bare_rule_line(stripped, IF current.index \in {None, 0} THEN 1 ELSE current.index,
                         Len(current.rules) + 1)

\* the branch of the classifier that the line takes
ParseAs(stripped, kind, next, blocks) ==
    CASE kind = "comment" ->
           lex' = IF lex.in_headers
                  THEN [next EXCEPT !.headers = Append(@,
                           Header("Comment", "", "",
                                  Str(Strip(Slice(stripped, 2, Len(stripped))))))]
                  ELSE next
      [] kind = "file_ref" ->
           lex' = [next EXCEPT !.headers = Append(@,
                      Header("FileRef", Str(SubSeq(stripped, 2, MatchFileRef(stripped))),
                             Str(Slice(stripped, MatchFileRef(stripped) + 1, Len(stripped))),
                             ""))]
      [] kind = "init" ->
           lex' = [next EXCEPT !.headers = Append(@,
                      Header("InitDirective", "", "",
                             Str(Strip(Slice(stripped, 5, Len(stripped))))))]
      [] kind = "mode" ->
           lex' = [next EXCEPT !.in_headers = FALSE,
                               !.grammars = Append(@, ModeBlock(MatchMode(stripped)))]
      [] kind = "preamble" ->
           lex' = [next EXCEPT !.grammars[Len(lex.grammars)].preamble =
                                   @ \o try_parse_preamble(stripped)]
      [] kind = "rule" -> RuleLine(blocks, PrefixedRule(stripped, MatchRule(stripped)))
      [] kind = "bare" -> RuleLine(blocks, BareRule(stripped, blocks[Len(blocks)]))
      [] OTHER -> lex' = next

ParseStripped(stripped) ==
    ParseAs(stripped, Classify(stripped, lex.grammars # <<>>, lex.in_headers),
            [lex EXCEPT !.i = @ + 1], WithBlock(lex.grammars))

\* one iteration of the loop of parse_text over the lines, up to the call of
\* _parse_symbol_sequence if the line is a rule with an arrow
ParseLine ==
    /\ lex.phase = "line"
    /\ lex.i < Len(lex.lines)
    /\ ParseStripped(Strip(lex.lines[lex.i + 1]))
    /\ UNCHANGED <<bp, start_symbol, seed, max_dur, alphabet_files, self, pc, blk, grp,
                   parts, runs, prout, frout, call>>

\* _parse_symbol_sequence(lhs_text) returns, and _parse_rule_line calls it on
\* rhs_text
LexLhs ==
    /\ lex.phase = "scan"
    /\ lex.side = "lhs"
    /\ Len(lex.stack) = 1
    /\ Top.pos >= Top.hi - Top.lo
    /\ lex' = [lex EXCEPT !.rule.lhs = Top.elements, !.side = "rhs", !.text = lex.rhs_text,
                          !.stack = <<SeqFrame(lex.rhs_text, 0, Len(lex.rhs_text))>>]
    /\ UNCHANGED <<bp, start_symbol, seed, max_dur, alphabet_files, self, pc, blk, grp,
                   parts, runs, prout, frout, call>>

\* _parse_symbol_sequence(rhs_text) returns, _parse_rule_line returns the
\* rule and parse_text appends it to the current block
LexRhs ==
    /\ lex.phase = "scan"
    /\ lex.side = "rhs"
    /\ Len(lex.stack) = 1
    /\ Top.pos >= Top.hi - Top.lo
    /\ lex' = [lex EXCEPT !.phase = "line", !.i = @ + 1, !.side = "", !.stack = <<>>,
                          !.text = <<>>, !.rhs_text = <<>>, !.rule = NoRule,
                          !.grammars = AppendRule(@, [lex.rule EXCEPT !.rhs = Top.elements])]
    /\ UNCHANGED <<bp, start_symbol, seed, max_dur, alphabet_files, self, pc, blk, grp,
                   parts, runs, prout, frout, call>>

\* the lines are exhausted: the blocks with no index get their position, and
\* parse_text returns BPFile(headers, grammars)
ParseReturn ==
    /\ lex.phase = "line"
    /\ lex.i = Len(lex.lines)
    /\ lex' = [lex EXCEPT !.phase = "done",
                          !.grammars = [k \in DOMAIN lex.grammars |->
                              IF lex.grammars[k].index = None
                              THEN [lex.grammars[k] EXCEPT !.index = k]
                              ELSE lex.grammars[k]]]
    /\ UNCHANGED <<bp, start_symbol, seed, max_dur, alphabet_files, self, pc, blk, grp,
                   parts, runs, prout, frout, call>>

\* the most lines of a text that is drawn
MaxLines == 2

\* the lines the texts are made of
SampleLines ==
    {<<"R", "N", "D">>,
     <<"O", "R", "D", " ", "[", "2", "]", " ", "[", "F", "x", "]">>,
     <<"S", "U", "B", "1", "[", "x", "]">>,
     <<"g", "r", "a", "m", "#", "1", "[", "1", "]", " ", "S", " ", "-", "-", ">", " ", "f", "a", "4", " ", "A">>,
     <<"g", "r", "a", "m", "#", "1", "[", "2", "]", " ", "<", "5", "0", "-", "1", "2", ">", " ", "/", "I", "d", "e", "a", "s", "/", " ", "S">>,
     <<"G", "R", "A", "M", "#", "2", "[", "3", "]", " ", "/", "I", "d", "e", "a", "s", "=", "2", "/", " ", "/", "N", "-", "1", "/">>,
     <<" ", "g", "r", "a", "m", "#", "1", "[", "3", "]", " ", "<", "5", ">", " ">>,
     <<"g", "r", "a", "m", "#", "1", "[", "4", "]">>,
     <<"g", "r", "a", "m", "#", "1", "[", "1", "]", " ", "/", "I", "d", "e", "a", "s", "/", " ", "S", " ", "-", "-", ">", " ", "A", " ", "/", "I", "d", "e", "a", "s", "+", "1", "/", " ", "B", " ", "[", "v", "]", " ", "[", "w", "]">>,
     <<"S", " ", "-", "-", ">", " ", "{", "f", "a", "4", ",", " ", "C", "4", "}">>,
     <<"/", "/", " ", "c">>,
     <<"-", "a", "l", ".", "x">>,
     <<"I", "N", "I", "T", ":", " ", "y">>,
     <<"-", "-", "-", "-", "-">>,
     <<"_", "m", "m", "(", "6", "0", ")", " ", "_", "s", "t", "r", "i", "a", "t", "e", "d">>,
     <<>>,
     <<"j", "u", "n", "k", " ", "-", "-", ">">>,
     <<"g", "r", "a", "m", "#", "1", "[", "5", "]", " ", "<", "3", ">", " ", "|", "x", "|", " ", "-", "-", ">", " ", "(", "=", " ", "A", ")", " ", "[", "a", "]", " ", "B">>}

\* parse_text(text) was called: text.split("\n") gave the lines
InitParse ==
    \E n \in 1..MaxLines : \E lines \in [1..n -> SampleLines] :
        InitWith([LexIdle EXCEPT !.phase = "line", !.lines = lines, !.base = 3], CallIdle)

NextParse ==
    \/ ParseLine \/ LexStep \/ LexCall \/ LexVoice \/ LexReturn \/ LexPoly
    \/ LexLhs \/ LexRhs \/ ParseReturn

SpecParse == InitParse /\ [][NextParse]_vars


\* the line parse_text is at, stripped
Stripped == Strip(lex.lines[lex.i + 1])

\* the line is a rule line, prefixed or bare, and holds no arrow
NoArrowLine ==
    /\ lex.phase = "line"
    /\ lex.i < Len(lex.lines)
    /\ Classify(Stripped, lex.grammars # <<>>, lex.in_headers) \in {"rule", "bare"}
    /\ ArrowAt(Stripped) = 0

\* what follows the prefix gram#N[M] of the line
AfterPrefix == Strip(Slice(Stripped, MatchRule(Stripped)[1], Len(Stripped)))

\* what follows the weight, if there is one
AfterWeight ==
    IF MatchWeight(AfterPrefix).end = 0 THEN AfterPrefix
    ELSE Strip(Slice(AfterPrefix, MatchWeight(AfterPrefix).end, Len(AfterPrefix)))

\* C16: a rule line without an arrow does not raise; parse_text goes on to the
\* next line with one more rule in the current block, which has the grammar
\* and rule numbers of the line, the weight and the prefix flags parsed from
\* it, the single left-hand symbol "?" and an empty right-hand side; nothing
\* else of the blocks changes
C16_NoArrow ==
    [][NoArrowLine =>
         LET before == WithBlock(lex.grammars)
             rules == lex'.grammars[Len(before)].rules
             rule == rules[Len(rules)]
         IN  /\ lex'.phase = "line"
             /\ lex'.i = lex.i + 1
             /\ Len(lex'.grammars) = Len(before)
             /\ \A k \in 1..(Len(before) - 1) : lex'.grammars[k] = before[k]
             /\ rules = Append(before[Len(before)].rules, rule)
             /\ lex'.grammars[Len(before)] = [before[Len(before)] EXCEPT !.rules = rules]
             /\ rule.grammar_num = IntOf(SubSeq(Stripped, 6, MatchRule(Stripped)[2]))
             /\ rule.rule_num = IntOf(SubSeq(Stripped, MatchRule(Stripped)[2] + 2,
                                             MatchRule(Stripped)[1] - 1))
             /\ rule.weight = MatchWeight(AfterPrefix).weight
             /\ rule.flags = PrefixFlags(AfterWeight, <<>>).flags
             /\ rule.lhs = <<NonTerminal("?")>>
             /\ rule.rhs = <<>>]_vars

\* the text was parsed and a rule line without an arrow gave a rule that
\* kept its weight and its flag
C16_Witness ==
    /\ lex.phase = "done"
    /\ \E b \in DOMAIN lex.grammars : \E k \in DOMAIN lex.grammars[b].rules :
          lex.grammars[b].rules[k] =
              Rule(1, 2, Weight(50, 12), <<Flag("Ideas", "", "")>>, <<NonTerminal("?")>>,
                   <<>>, "")

\* ---------------------------------------------------------------------
\* C28: once the first mode line or rule line of a file has been processed
\* (in_headers is False), header mode is never re-entered and no later line
\* adds a header
C28_HeadersClosed ==
    [][(lex.phase \in {"line", "scan"} /\ ~lex.in_headers)
          => (~lex'.in_headers /\ lex'.headers = lex.headers)]_vars

\* ---------------------------------------------------------------------
\* C29: a line of special-function tokens is added to the preamble of the
\* current block only while the block has no rule: no step extends the
\* preamble of a block to which a rule has been appended
C29_PreambleBeforeRules ==
    [][\A k \in DOMAIN lex.grammars :
          lex.grammars[k].rules # <<>>
              => lex'.grammars[k].preamble = lex.grammars[k].preamble]_vars

\* ---------------------------------------------------------------------
\* the text the scan loop on top of the stack stands at
Remaining == Slice(lex.text, Top.lo + Top.pos, Top.hi)

\* the scan loop on top of the stack stands at the opening slash of a flag
\* pattern
AtFlag ==
    /\ lex.phase = "scan"
    /\ lex.stack # <<>>
    /\ Top.kind = "seq"
    /\ Top.pos < Top.hi - Top.lo
    /\ MatchFlag(Remaining) > 0

\* C30: when the tokenizer stands where a /name[op value]/ flag pattern
\* begins, the iteration consumes the whole pattern and adds no element:
\* scanning resumes after the closing slash
C30_FlagConsumed ==
    [][AtFlag => /\ Len(lex'.stack) = Len(lex.stack)
                 /\ lex'.stack[Len(lex.stack)].pos = Top.pos + MatchFlag(Remaining)
                 /\ lex'.stack[Len(lex.stack)].elements = Top.elements]_vars

\* the name of a flag is never emitted as a NonTerminal: the result of
\* tokenizing "S /Id=2/ B" has no element named after the flag
NoFlagNameEmitted ==
    (lex.phase = "done" /\ lex.text = <<"S", " ", "/", "I", "d", "=", "2", "/", " ", "B">>)
        => \A k \in DOMAIN lex.out : lex.out[k].name # "Id"

\* ---------------------------------------------------------------------
\* the tokens of the stochastic selections the emitter writes: the static
\* choices, the draw of the decrementing-weight routine and the choice among
\* the unflagged rules of a flag routine
Stochastic == {"Prand", "Pwrand", "total.rand", ".choose"}

\* position i stands inside the argument list of a Pseed
RECURSIVE UnderSeed(_, _)
UnderSeed(tokens, i) ==
    LET j == Encl(tokens, i - 1, 0)
    IN  IF j = 0 THEN FALSE
        ELSE IF j > 1 /\ tokens[j] = "(" /\ tokens[j - 1] = "Pseed" THEN TRUE
        ELSE UnderSeed(tokens, j)

\* C25: when a seed is configured every stochastic selection of a compiled
\* symbol stands under a seeding wrapper; when none is configured no seeding
\* wrapper is emitted
C25_Seeded ==
    SymbolDone =>
        IF seed # None
        THEN \A i \in DOMAIN LastPdef : LastPdef[i] \in Stochastic => UnderSeed(LastPdef, i)
        ELSE "Pseed" \notin Range(LastPdef)

\* the static choices alone are seeded, and nothing is without a seed
StaticSeeded ==
    SymbolDone =>
        IF seed # None
        THEN \A i \in DOMAIN LastPdef :
                LastPdef[i] \in {"Prand", "Pwrand"} => UnderSeed(LastPdef, i)
        ELSE "Pseed" \notin Range(LastPdef)

\* ---------------------------------------------------------------------
\* the rules of the symbol the Pdef at p was compiled for
RulesAt(p) ==
    LET name == CHOOSE n \in {"S", "A"} : parts[p][3] = Sym(n)
    IN  group_rules(1, name)

\* the rule has a guard: a flag that is a condition
Guarded(rule) == \E i \in DOMAIN rule.flags : is_flag_condition(rule.flags[i])

\* the Pdef at p is a flag routine compiled from at least one guarded rule and
\* no unflagged rule
GuardedOnly(p) ==
    /\ "inf.do" \in Range(parts[p])
    /\ "total.rand" \notin Range(parts[p])
    /\ \E i \in DOMAIN RulesAt(p) : Guarded(RulesAt(p)[i])
    /\ \A i \in DOMAIN RulesAt(p) : RulesAt(p)[i].flags # <<>>

\* the ranks, among the embedInStream statements of the routine, of those
\* that stream Event.silent(0.25)
SilenceRanks(tokens) ==
    {Cardinality({k \in 1..e : tokens[k] = Embed[1]}) :
        e \in {k \in 5..Len(tokens) : tokens[k] = Embed[1] /\ tokens[k - 4] = "Event.silent"}}

\* no guarded rule of the routine has all its guards holding in env
NoGuardHolds(p, env) ==
    \A i \in DOMAIN RulesAt(p) : Guarded(RulesAt(p)[i]) => ~GuardsHold(RulesAt(p)[i], env)

\* the iteration just run streamed the silence, and streamed something
SilenceStreamed ==
    /\ frout.ran # <<>>
    /\ \E k \in DOMAIN frout.ran : frout.ran[k] \in SilenceRanks(parts[frout.line])

SilenceWhenRun ==
    (frout.line > 0 /\ frout.turn /\ GuardedOnly(frout.line)
        /\ NoGuardHolds(frout.line, frout.pre)) => SilenceStreamed

\* a well-formed routine of one guarded rule ran an iteration with the guard
\* not holding
SilenceRun ==
    /\ frout.line > 0 /\ frout.turn /\ GuardedOnly(frout.line)
    /\ NoGuardHolds(frout.line, frout.pre)
    /\ SilenceStreamed

\* ---------------------------------------------------------------------
(***************************************************************************)
(* _resolve_symbol_to_midi called on the symbols of recursive grammars.    *)
(***************************************************************************)
\* the right-hand sides of the rules of S and of A: up to two of a note, a
\* rest, the undefined symbol B and the symbols S and A themselves
ResolveRhs ==
    SeqsUpTo({fa4, Rest, NonTerminal("B"), NonTerminal("S"), Variable("A")}, 2)

FilesResolve ==
    {OneBlock("ORD", <<PlainRule(NoWeight, <<>>, <<NonTerminal("S")>>, s),
                       PlainRule(NoWeight, <<>>, <<Variable("A")>>, a)>>) :
        <<s, a>> \in ResolveRhs \X ResolveRhs}

\* an emitter is about to be made for the file and asked for the pitches of
\* a symbol
InitResolve ==
    /\ bp \in FilesResolve
    /\ seed = None
    /\ alphabet_files = <<>>
    /\ max_dur = None
    /\ start_symbol = "S"
    /\ self = NoEmitter
    /\ pc = "call"
    /\ blk = 0
    /\ grp = 0
    /\ parts = <<>>
    /\ runs = <<>>
    /\ prout = [line |-> 0, w |-> <<>>, last |-> 0, prev |-> <<>>, r |-> 0,
                during |-> <<>>]
    /\ frout = FlagIdle
    /\ lex = LexIdle
    /\ \E name \in {"S", "A", "B"} :
          call = [fn |-> "_resolve_symbol_to_midi", args |-> <<name>>, done |-> FALSE,
                  result |-> <<>>]

\* self._resolve_symbol_to_midi(name) returns: the pitches, <<>> for None
Resolve ==
    /\ pc = "emit"
    /\ call.fn = "_resolve_symbol_to_midi"
    /\ ~call.done
    /\ call' = [call EXCEPT !.done = TRUE,
                            !.result = resolve_symbol_to_midi(call.args[1], 0, self)]
    /\ UNCHANGED <<bp, start_symbol, seed, max_dur, alphabet_files, self, pc, blk, grp,
                   parts, runs, prout, frout, lex>>

NextResolve == Construct \/ Resolve

SpecResolve == InitResolve /\ [][NextResolve]_vars

\* inlining name from depth reaches a call past the depth bound
RECURSIVE PastBound(_, _, _)
PastBound(name, depth, st) ==
    IF depth > 10 THEN TRUE
    ELSE IF name \in TerminalNames(st.terminal_midi) THEN FALSE
    ELSE IF rules_by_lhs(name) = <<>> THEN FALSE
    ELSE LET rule == rules_by_lhs(name)[1][2]
         IN  \E i \in DOMAIN rule.rhs :
                /\ rule.rhs[i].t \in {"NonTerminal", "Variable"}
                /\ PastBound(rule.rhs[i].name, depth + 1, st)

\* C26: symbol inlining returns on every grammar, recursive ones included,
\* and when inlining the symbol goes past the depth bound the symbol is
\* reported as not resolvable: no pitch list is returned for it
C26_DepthBound ==
    (call.fn = "_resolve_symbol_to_midi" /\ call.done /\ PastBound(call.args[1], 0, self))
        => call.result = <<>>

\* every call returns, with pitches or without
ResolveReturns ==
    (call.fn = "_resolve_symbol_to_midi" /\ call.done)
        => \A k \in DOMAIN call.result : call.result[k] \in 0..127

\* ---------------------------------------------------------------------
(***************************************************************************)
(* The Tie elements of a rule, given to _emit_element one at a time by the *)
(* loop of _emit_rhs.                                                      *)
(***************************************************************************)
\* the most ties of a right-hand side that is drawn
MaxTies == 3

\* C4&, &C4, &do4 (the pitch of C4), D4& and &D4
TiePool ==
    {Tie("C", 4, TRUE), Tie("C", 4, FALSE), Tie("do", 4, FALSE),
     Tie("D", 4, TRUE), Tie("D", 4, FALSE)}

FilesTies ==
    {OneBlock("ORD", <<PlainRule(NoWeight, <<>>, <<NonTerminal("S")>>, rhs)>>) :
        rhs \in SeqsUpTo(TiePool, MaxTies)}

\* an emitter is about to be made for the file; emitted holds what
\* _emit_element returned so far
InitTies ==
    /\ bp \in FilesTies
    /\ seed = None
    /\ alphabet_files = <<>>
    /\ max_dur = None
    /\ start_symbol = "S"
    /\ self = NoEmitter
    /\ pc = "call"
    /\ blk = 0
    /\ grp = 0
    /\ parts = <<>>
    /\ runs = <<>>
    /\ prout = [line |-> 0, w |-> <<>>, last |-> 0, prev |-> <<>>, r |-> 0,
                during |-> <<>>]
    /\ frout = FlagIdle
    /\ lex = LexIdle
    /\ call = [fn |-> "_emit_element", args |-> <<>>, done |-> FALSE, result |-> <<>>]

\* the right-hand side that is walked
TieRhs == bp.grammars[1].rules[1].rhs

\* the element the loop of _emit_rhs stands at
NextTie == TieRhs[Len(call.result) + 1]

\* one iteration of the loop of _emit_rhs: result = self._emit_element(elem)
TieStep ==
    /\ pc = "emit"
    /\ call.fn = "_emit_element"
    /\ Len(call.result) < Len(TieRhs)
    /\ self' = emit_element(NextTie, self).self
    /\ call' = [call EXCEPT !.args = Append(@, NextTie),
                            !.result = Append(@, emit_element(NextTie, self).v),
                            !.done = Len(call.result) + 1 = Len(TieRhs)]
    /\ UNCHANGED <<bp, start_symbol, seed, max_dur, alphabet_files, pc, blk, grp,
                   parts, runs, prout, frout, lex>>

NextTies == Construct \/ TieStep

SpecTies == InitTies /\ [][NextTies]_vars

\* the pitch of a tie
TiePitch(elem) == note_to_midi(elem.name, elem.n).v

\* what the emitter renders a returned item as, alone in its group
Rendered(item) == wrap_element_group(<<item>>, <<>>)

\* the silences emitted so far, and the tie starts processed so far
Silences == {k \in DOMAIN call.result : Rendered(call.result[k]) = EventSilent}
Starts == {k \in DOMAIN call.args : call.args[k].flag}

\* each tie start is answered by at most one silence: every silence has a
\* tie start of its own before it, with no other silence in between
AnsweredOnce ==
    call.fn = "_emit_element" =>
        \A k \in Silences : \E j \in Starts :
            /\ j < k
            /\ \A q \in Silences : ~(j < q /\ q < k)

\* what one iteration on a tie does to the pending pitch, and what it emits
TieTransition ==
    (pc = "emit" /\ call.fn = "_emit_element" /\ Len(call.result) < Len(TieRhs)) =>
        LET item == call'.result[Len(call'.result)]
        IN  IF NextTie.flag
            THEN self'.pending_tie_midi = TiePitch(NextTie)
            ELSE IF self.pending_tie_midi = TiePitch(NextTie)
            THEN /\ Rendered(item) = EventSilent
                 /\ self'.pending_tie_midi = None
            ELSE /\ item = emit_element(Note(NextTie.name, NextTie.n), self).v
                 /\ self'.pending_tie_midi = self.pending_tie_midi

\* C21: the ties are processed as a one-slot state machine.  A tie start sets
\* the pending pitch to its own; a tie end of the pending pitch is emitted as
\* the placeholder silence and clears the pending pitch; a tie end of another
\* pitch, or with nothing pending, is emitted as the ordinary note and leaves
\* the pending pitch as it is; so each tie start is answered by at most one
\* silence
C21_TieMachine == [][TieTransition]_vars /\ []AnsweredOnce

\* C4& &D4 &C4 &C4 ... : a start, an end of another pitch emitted as a
\* note, the matching end emitted as the silence
C21_Witness ==
    /\ call.fn = "_emit_element"
    /\ call.args = <<Tie("C", 4, TRUE), Tie("D", 4, FALSE), Tie("do", 4, FALSE)>>
    /\ call.result = <<<<"TIE_START:60">>, <<"62">>, <<"TIE_END">>>>
    /\ self.pending_tie_midi = None

\* ---------------------------------------------------------------------
(***************************************************************************)
(* emit_scd on rules with ties at the top level, in polymetric voices and  *)
(* in homomorphism groups.                                                 *)
(***************************************************************************)
\* C4& &C4 and D4& &D4
TiedC == <<Tie("C", 4, TRUE), Tie("C", 4, FALSE)>>
TiedD == <<Tie("D", 4, TRUE), Tie("D", 4, FALSE)>>

TieBodies ==
    {TiedC,
     <<fa4>> \o TiedC,
     TiedC \o TiedD,
     <<SpecialFn("vel", <<"80">>)>> \o TiedC,
     <<NonTerminal("A")>> \o TiedC,
     <<Tie("C", 4, TRUE), fa4, Tie("C", 4, FALSE)>>,
     <<Polymetric(None, <<TiedC>>)>>,
     <<Polymetric(2, <<TiedC>>)>>,
     <<Polymetric(None, <<TiedC, <<fa4>>>>)>>,
     <<Polymetric(None, <<<<NonTerminal("A")>> \o TiedC, <<fa4>>>>)>>,
     <<HomoApply("master", TiedC)>>,
     <<HomoApply("slave", <<fa4>> \o TiedC)>>,
     <<Tie("C", 4, TRUE), Polymetric(None, <<<<Tie("C", 4, FALSE)>>>>)>>}

FilesTieBodies ==
    {OneBlock("ORD", <<PlainRule(NoWeight, <<>>, <<NonTerminal("S")>>, rhs),
                       PlainRule(NoWeight, <<>>, <<NonTerminal("A")>>, <<fa4>>)>>) :
        rhs \in TieBodies}

InitTieText == InitCall(FilesTieBodies)

SpecTieText == InitTieText /\ [][Next]_vars

\* the emitter's tie markers
MarkerTokens == {"TIE_END"} \cup {"TIE_START:" \o ToString(m) : m \in 0..127}

\* the tie starts of the rule of S, nested ones included
TieStarts ==
    SelectSeq(walk_rhs_elements(bp.grammars[1].rules[1].rhs),
              LAMBDA e : e.t = "Tie" /\ e.flag)

\* the sustained event bindings of the tokens: Pbind(... \legato, 2.0)
Sustained(tokens) ==
    {i \in 1..(Len(tokens) - 2) :
        tokens[i] = "\\legato" /\ tokens[i + 1] = "," /\ tokens[i + 2] = "2.0"}

\* C22: every tie start of a right-hand side, at the top level, in a
\* polymetric voice or in a homomorphism group, is rendered as a sustained
\* event binding and every matched tie end as a silence, and no tie marker
\* token of the emitter appears in the emitted text
C22_TiesRendered ==
    pc = "done" =>
        /\ \A i \in DOMAIN Text : Text[i] \notin MarkerTokens
        /\ Cardinality(Sustained(Text)) = Len(TieStarts)
        /\ Cardinality({i \in DOMAIN Text : Text[i] = "Event.silent"}) >= Len(TieStarts)

\* the same of the rules whose ties all stand at the top level
TopLevelTies ==
    (pc = "done" /\ \A i \in DOMAIN bp.grammars[1].rules[1].rhs :
                        bp.grammars[1].rules[1].rhs[i].kids = <<>>)
        => /\ \A i \in DOMAIN Text : Text[i] \notin MarkerTokens
           /\ Cardinality(Sustained(Text)) = Len(TieStarts)
           /\ Cardinality({i \in DOMAIN Text : Text[i] = "Event.silent"}) >= Len(TieStarts)

\* ---------------------------------------------------------------------
(***************************************************************************)
(* emit_scd on files of two rules: the rule of A is compiled after         *)
(* different rules of S.                                                   *)
(***************************************************************************)
\* the rules compiled first: one that leaves nothing behind and ones that
\* leave a _repeat count, a tie, a homomorphism label or a velocity behind
Preceding ==
    {<<fa4>>,
     <<fa4, SpecialFn("repeat", <<"2">>)>>,
     <<fa4, Tie("C", 4, TRUE)>>,
     <<fa4, HomoApply("ref", <<NonTerminal("mineur")>>)>>,
     <<SpecialFn("rndvel", <<"10">>), fa4>>,
     <<SpecialFn("vel", <<"64">>), fa4>>}

\* the rules compiled after them
Following ==
    {<<fa4, sol4>>,
     <<Tie("C", 4, FALSE), sol4>>,
     <<HomoApply("master", <<fa4, sol4>>)>>,
     <<SpecialFn("vel", <<"80">>), sol4>>,
     <<SpecialFn("rndvel", <<"10">>), sol4>>,
     <<NonTerminal("B"), fa4>>}

FilesPairs ==
    {OneBlock("ORD", <<PlainRule(NoWeight, <<>>, <<NonTerminal("S")>>, pre),
                       PlainRule(NoWeight, <<>>, <<NonTerminal("A")>>, rhs)>>) :
        <<pre, rhs>> \in Preceding \X Following}

InitPairs == InitCall(FilesPairs)

SpecPairs == InitPairs /\ [][Next]_vars

\* the Pdef of the symbol compiled last, as a new emitter of the same file
\* compiles it before any other rule
CompiledAlone ==
    emit_rules_for_symbol(pdef_name(lhs_groups(blk)[grp], blk),
                          group_rules(blk, lhs_groups(blk)[grp]), blk,
                          [SCEmitter_init EXCEPT !.scale_data = self.scale_data]).v

\* C23: the compiled body of a rule depends on the rule, its block and the
\* file-level indices only: the state the emitter is left in by the rules
\* compiled before it (a pending _repeat count, a pending tie pitch, the
\* homomorphism label, the last velocity and the random-velocity range) does
\* not change it
C23_RuleLocal ==
    (pc = "blocks" /\ grp > 0) => LastPdef = CompiledAlone

\* ---------------------------------------------------------------------
(***************************************************************************)
(* emit_scd on rules that mix events and modifiers.                        *)
(***************************************************************************)
\* the most elements of a right-hand side that is drawn
MaxMods == 3

\* two events and three modifiers, two of them of the same key
ModPool ==
    {fa4, NonTerminal("A"), SpecialFn("transpose", <<"+2">>),
     SpecialFn("vel", <<"80">>), SpecialFn("vel", <<"64">>)}

FilesMods ==
    {OneBlock("ORD", <<PlainRule(NoWeight, <<>>, <<NonTerminal("S")>>, rhs),
                       PlainRule(NoWeight, <<>>, <<NonTerminal("A")>>, <<sol4>>)>>) :
        rhs \in SeqsUpTo(ModPool, MaxMods)}

InitMods == InitCall(FilesMods)

SpecMods == InitMods /\ [][Next]_vars

\* the rule of S, the one that holds the modifiers
ModRule == bp.grammars[1].rules[1]

\* what the emitter returns for the element, in a new emitter
Returned(elem) == emit_element(elem, SCEmitter_init)

IsModifier(elem) == Returned(elem).k = "tuple"
IsEvent(elem) == Returned(elem).k = "str" /\ ~StartsWith(Returned(elem).v, "//")

\* the <<key, value>> the modifier elements among the first n set, in order
RECURSIVE Settings(_, _)
Settings(elements, n) ==
    IF n = 0 THEN <<>>
    ELSE Settings(elements, n - 1)
         \o (IF IsModifier(elements[n])
             THEN <<<<Head(Returned(elements[n]).v),
                      sanitize_sc_number(Tail(Returned(elements[n]).v))>>>>
             ELSE <<>>)

\* the modifier map in force at position i: for every key set before i, in
\* the order the keys were first set, the value the latest setting gave it
ModsAt(elements, i) ==
    LET set == Settings(elements, i - 1)
        firsts == {q \in DOMAIN set : \A r \in 1..(q - 1) : set[r][1] # set[q][1]}
        latest(key) == CHOOSE q \in DOMAIN set :
                          /\ set[q][1] = key
                          /\ \A r \in (q + 1)..Len(set) : set[r][1] # key
    IN  [k \in 1..Cardinality(firsts) |->
            LET q == CHOOSE f \in firsts : Cardinality({g \in firsts : g < f}) = k - 1
            IN  <<set[q][1], set[latest(set[q][1])][2]>>]

\* the positions of the events, in order
EventsOf(elements) ==
    LET at == {i \in DOMAIN elements : IsEvent(elements[i])}
    IN  [k \in 1..Cardinality(at) |->
            CHOOSE i \in at : Cardinality({j \in at : j < i}) = k - 1]

\* the batches: the maximal runs of consecutive events with equal maps, each
\* rendered with its map, the events in their order
BatchesOf(elements) ==
    LET ev == EventsOf(elements)
        map(k) == ModsAt(elements, ev[k])
        starts == {k \in DOMAIN ev : k = 1 \/ map(k) # map(k - 1)}
        stop(s) == IF \E t \in starts : t > s
                   THEN (CHOOSE t \in starts : t > s /\ \A u \in starts : u > s => t <= u) - 1
                   ELSE Len(ev)
    IN  [b \in 1..Cardinality(starts) |->
            LET s == CHOOSE t \in starts : Cardinality({u \in starts : u < t}) = b - 1
            IN  wrap_element_group([k \in 1..(stop(s) - s + 1) |->
                                       Returned(elements[ev[s + k - 1]]).v],
                                   map(s))]

\* the rule of S has just been compiled
ModsCompiled == pc = "blocks" /\ grp = 1

\* C24: each event of a rule body is rendered with the modifier map in force
\* at its position: for every key the value set by the latest modifier that
\* precedes the event in the rule, none for an event no modifier precedes and
\* none at the start of the rule that follows; consecutive events are batched
\* exactly when their maps are equal, and the events keep their order across
\* the batches
C24_ModifierMaps ==
    (pc = "blocks" /\ grp \in 1..2) =>
        LastPdef = sc_pdef(bp.grammars[1].rules[grp].lhs[1].name,
                           rhs_assemble(BatchesOf(bp.grammars[1].rules[grp].rhs)))

\* fa4 _vel(80) A: an event before the modifier, rendered without it, and an
\* event after it, rendered with it, in two batches
C24_Witness ==
    /\ ModsCompiled
    /\ ModRule.rhs = <<fa4, SpecialFn("vel", <<"80">>), NonTerminal("A")>>
    /\ Len(BatchesOf(ModRule.rhs)) = 2
    /\ "Pbindf" \in Range(LastPdef)
    /\ \E i \in DOMAIN LastPdef : \E j \in DOMAIN LastPdef :
          i < j /\ LastPdef[i] = "65" /\ LastPdef[j] = "\\amp"
    /\ Cardinality({j \in DOMAIN LastPdef : LastPdef[j] = "\\amp"}) = 1

====
